---------------------------- MODULE Spec2Model ----------------------------
(***************************************************************************)
(* Model of the git-commit-checker extension: the commit-message parser,   *)
(* validator and builder (services/validator.core.ts), the rule constants  *)
(* and the config manager (config/rules.ts), the commit commands           *)
(* (commands/commit.ts), the validator service, the AI helpers and the AI  *)
(* service, the diff analyzer and the manual wizard (ui/quickInput.ts).    *)
(*                                                                         *)
(* A JavaScript string is a sequence of one-character strings; the absence *)
(* value `undefined` of an optional string is the one-element sequence     *)
(* Undefined, whose element is not a character; `null` of the parser is    *)
(* the record Null.                                                        *)
(***************************************************************************)
EXTENDS Integers, Sequences, FiniteSets, TLC

VARIABLES
    \* parser / builder harness
    origin,     \* "fields": a structured message was given; "raw": a raw text
    fields,     \* the structured message handed to buildCommitMessage
    text,       \* the raw text handed to parseCommitMessage
    parsed,     \* the last result of parseCommitMessage
    ppc,        \* position of the parser harness
    \* validator harness
    message,    \* raw text handed to validateCommitMessage
    ftype,      \* bare type handed to validateType
    fsubject,   \* bare subject handed to validateSubject
    config,     \* the IPluginConfig handed to the validators
    vresult,    \* result of validateCommitMessage
    tresult,    \* result of validateType
    sresult,    \* result of validateSubject
    \* commit commands
    command,    \* which command runs: "commit" | "quick"
    pc,         \* position in the command
    svcConfig,  \* ValidatorService.config
    commitMessage, \* the ICommitMessage returned by the input flow
    validation, \* the text handed to validator.validate and its result
    commits,    \* the arguments of every gitService.commit call, in order
    notices,    \* the messages the command showed to the user, in order
    answers,    \* the prompts the user answered and the answers, in order
    \* AI helper harness
    diffContent, \* the diff text handed to truncateDiff
    maxLength,  \* the maximum length handed to truncateDiff
    truncated,  \* result of truncateDiff
    content,    \* the response text handed to parseAIResponse
    aiResult,   \* what parseAIResponse returned or threw
    \* diff analyzer harness
    diffInfo,   \* the IDiffInfo handed to analyzeDiff
    analysis,   \* result of analyzeDiff
    \* configuration
    editorSettings, \* the gitCommitChecker settings of the editor
    projectFile,    \* the project config file of the workspace
    cachedConfig,   \* ConfigManager.cachedConfig
    resolved,       \* the last result of ConfigManager.getConfig
    managerRoot,    \* ConfigManager.workspaceRoot, once the manager exists
    \* manual wizard
    wizard,         \* showCommitInputFlow: the open prompt and the fields so far
    \* AI service
    aiSettings,     \* the gitCommitChecker.ai settings of the editor
    aiServiceInstance, \* the AIService singleton: its config, once it exists
    offered,        \* the options of the last showAIGenerateOption
    request,        \* the generateCommitMessage call in flight
    \* the two implementations of the message rules
    call,           \* a method of ValidatorService, its arguments and its config
    results         \* what the method and the function of validator.core returned

vars == <<origin, fields, text, parsed, ppc,
          message, ftype, fsubject, config, vresult, tresult, sresult,
          command, pc, svcConfig, commitMessage, validation, commits, notices,
          answers,
          diffContent, maxLength, truncated, content, aiResult,
          diffInfo, analysis,
          editorSettings, projectFile, cachedConfig, resolved, managerRoot,
          wizard, aiSettings, aiServiceInstance, offered, request,
          call, results>>

parseVars == <<origin, fields, text, parsed, ppc>>
validateVars == <<message, ftype, fsubject, config, vresult, tresult, sresult>>
commandVars ==
    <<command, pc, svcConfig, commitMessage, validation, commits, notices, answers>>
aiVars == <<diffContent, maxLength, truncated, content, aiResult>>
analyzerVars == <<diffInfo, analysis>>
configVars ==
    <<editorSettings, projectFile, cachedConfig, resolved, managerRoot>>
wizardVars == <<wizard>>
remoteVars == <<aiSettings, aiServiceInstance, offered, request>>
serviceVars == <<call, results>>

-----------------------------------------------------------------------------
(* Characters and JavaScript string primitives                             *)

LowerChars == {"a", "b", "c", "d", "e", "f", "g", "h", "i", "j", "k", "l", "m",
               "n", "o", "p", "q", "r", "s", "t", "u", "v", "w", "x", "y", "z"}
UpperChars == {"A", "B", "C", "D", "E", "F", "G", "H", "I", "J", "K", "L", "M",
               "N", "O", "P", "Q", "R", "S", "T", "U", "V", "W", "X", "Y", "Z"}
DigitChars == {"0", "1", "2", "3", "4", "5", "6", "7", "8", "9"}

\* \w of a JavaScript regular expression
WordChars == LowerChars \cup UpperChars \cup DigitChars \cup {"_"}

\* \s and String.prototype.trim agree on what white space is
SpaceChars == {" ", "\t", "\n", "\r"}

\* the characters `.` of a regular expression does not match
LineTerminators == {"\n", "\r"}

Undefined == <<"undefined">>

Null == [isNull |-> TRUE]

\* JavaScript truthiness of an optional string: neither undefined nor ""
Truthy(s) == s # Undefined /\ s # <<>>

\* `s || undefined`
OrUndefined(s) == IF Truthy(s) THEN s ELSE Undefined

RECURSIVE TrimStart(_)
TrimStart(s) ==
    IF s # <<>> /\ Head(s) \in SpaceChars THEN TrimStart(Tail(s)) ELSE s

RECURSIVE TrimEnd(_)
TrimEnd(s) ==
    IF s # <<>> /\ s[Len(s)] \in SpaceChars
    THEN TrimEnd(SubSeq(s, 1, Len(s) - 1))
    ELSE s

\* String.prototype.trim
Trim(s) == TrimEnd(TrimStart(s))

\* String.prototype.split on a one-character separator: never an empty list
RECURSIVE Split(_, _)
Split(s, sep) ==
    IF \A i \in 1..Len(s) : s[i] # sep
    THEN <<s>>
    ELSE LET i == CHOOSE k \in 1..Len(s) :
                     s[k] = sep /\ \A j \in 1..(k - 1) : s[j] # sep
         IN  <<SubSeq(s, 1, i - 1)>> \o Split(SubSeq(s, i + 1, Len(s)), sep)

\* Array.prototype.join on string elements
RECURSIVE Join(_, _)
Join(parts, sep) ==
    IF parts = <<>> THEN <<>>
    ELSE IF Len(parts) = 1 THEN parts[1]
    ELSE parts[1] \o sep \o Join(Tail(parts), sep)

\* Array.prototype.slice(from, to) with JavaScript's 0-based, end-exclusive indices
Slice(arr, from, to) == SubSeq(arr, from + 1, to)

\* String.prototype.startsWith
StartsWith(s, prefix) ==
    Len(s) >= Len(prefix) /\ SubSeq(s, 1, Len(prefix)) = prefix

\* Array.prototype.includes
Includes(arr, x) == \E i \in 1..Len(arr) : arr[i] = x

\* 'c'.repeat(n)
Repeat(c, n) == [i \in 1..n |-> c]

-----------------------------------------------------------------------------
(* config/rules.ts                                                         *)

DEFAULT_TYPES ==
    << <<"f", "e", "a", "t">>,
       <<"f", "i", "x">>,
       <<"d", "o", "c", "s">>,
       <<"s", "t", "y", "l", "e">>,
       <<"r", "e", "f", "a", "c", "t", "o", "r">>,
       <<"p", "e", "r", "f">>,
       <<"t", "e", "s", "t">>,
       <<"b", "u", "i", "l", "d">>,
       <<"c", "i">>,
       <<"c", "h", "o", "r", "e">>,
       <<"r", "e", "v", "e", "r", "t">> >>

DEFAULT_TYPE_DESCRIPTIONS ==
    [t \in {DEFAULT_TYPES[i] : i \in 1..Len(DEFAULT_TYPES)} |-> "builtin"]

DEFAULT_CONFIG ==
    [types |-> DEFAULT_TYPES,
     typeDescriptions |-> DEFAULT_TYPE_DESCRIPTIONS,
     subjectMaxLength |-> 50,
     subjectMinLength |-> 3,
     scopeRequired |-> FALSE,
     bodyRequired |-> FALSE]

NoMatch == [matched |-> FALSE]

\* the longest prefix of word characters: the greedy \w+ after ^
RECURSIVE WordPrefixLen(_)
WordPrefixLen(s) ==
    IF s # <<>> /\ Head(s) \in WordChars THEN 1 + WordPrefixLen(Tail(s)) ELSE 0

\* position of the first `c` in s, 0 when there is none
FirstIndexOf(s, c) ==
    IF \E i \in 1..Len(s) : s[i] = c
    THEN CHOOSE i \in 1..Len(s) : s[i] = c /\ \A j \in 1..(i - 1) : s[j] # c
    ELSE 0

\* the tail  :\s*(.+)$  of the expression, on the text that follows the colon:
\* \s* is greedy and gives characters back until (.+)$ matches
SubjectMatch(r) ==
    LET Ks == {k \in 0..(Len(r) - 1) :
                  /\ \A i \in 1..k : r[i] \in SpaceChars
                  /\ \A i \in (k + 1)..Len(r) : r[i] \notin LineTerminators}
    IN  IF Ks = {} THEN Undefined
        ELSE LET k == CHOOSE x \in Ks : \A y \in Ks : y <= x
             IN  SubSeq(r, k + 1, Len(r))

\* /^(\w+)(?:\(([^)]+)\))?:\s*(.+)$/ : the match groups, or NoMatch
COMMIT_MESSAGE_REGEX(line) ==
    LET n    == WordPrefixLen(line)
        rest == SubSeq(line, n + 1, Len(line))
        Groups(type, scope, afterColon) ==
            LET subject == SubjectMatch(afterColon)
            IN  IF subject = Undefined THEN NoMatch
                ELSE [matched |-> TRUE, type |-> type, scope |-> scope,
                      subject |-> subject]
    IN  IF n = 0 \/ rest = <<>> THEN NoMatch
        ELSE IF rest[1] = ":"
             THEN Groups(SubSeq(line, 1, n), Undefined, Tail(rest))
        ELSE IF rest[1] = "("
             THEN LET close == FirstIndexOf(rest, ")")
                  IN  IF close <= 2 \/ close = Len(rest) \/ rest[close + 1] # ":"
                      THEN NoMatch
                      ELSE Groups(SubSeq(line, 1, n),
                                  SubSeq(rest, 2, close - 1),
                                  SubSeq(rest, close + 2, Len(rest)))
        ELSE NoMatch

\* TYPE_PATTERN with the i flag: /^[a-z]+$/i
TYPE_PATTERN_AnyCase(s) ==
    s # <<>> /\ \A i \in 1..Len(s) : s[i] \in LowerChars \cup UpperChars

\* VALIDATION_RULES.TYPE_PATTERN  /^[a-z]+$/
TYPE_PATTERN(s) == s # <<>> /\ \A i \in 1..Len(s) : s[i] \in LowerChars

\* VALIDATION_RULES.SCOPE_PATTERN  /^[\w\-/.]+$/
SCOPE_PATTERN(s) ==
    s # <<>> /\ \A i \in 1..Len(s) : s[i] \in WordChars \cup {"-", "/", "."}

\* SUBJECT_NO_PERIOD with the class turned into a dot: /.$/
SUBJECT_NO_PERIOD_AnyChar(s) == s # <<>>

\* VALIDATION_RULES.SUBJECT_NO_PERIOD  /[^.]$/
SUBJECT_NO_PERIOD(s) == s # <<>> /\ s[Len(s)] # "."

-----------------------------------------------------------------------------
(* services/validator.core.ts: parseCommitMessage                          *)

footerKeywords ==
    << <<"B", "R", "E", "A", "K", "I", "N", "G", " ", "C", "H", "A", "N", "G", "E", ":">>,
       <<"C", "l", "o", "s", "e", "s">>,
       <<"F", "i", "x", "e", "s">>,
       <<"R", "e", "f", "s">>,
       <<"I", "s", "s", "u", "e">> >>

\* footerKeywords.some(keyword => line.startsWith(keyword))
IsFooterLine(line) ==
    \E k \in 1..Len(footerKeywords) : StartsWith(line, footerKeywords[k])

\* the while loop: from index 1, skip the lines that are blank when trimmed
RECURSIVE SkipBlank(_, _)
SkipBlank(lines, i) ==
    IF i < Len(lines) /\ Trim(lines[i + 1]) = <<>>
    THEN SkipBlank(lines, i + 1)
    ELSE i

\* FindFooter without the `break`: the last such index
RECURSIVE FindFooter_NoBreak(_, _)
FindFooter_NoBreak(lines, i) ==
    IF i >= Len(lines) THEN -1
    ELSE LET later == FindFooter_NoBreak(lines, i + 1)
         IN  IF later # -1 THEN later
             ELSE IF IsFooterLine(Trim(lines[i + 1])) THEN i
             ELSE -1

\* the for loop: the first index from i on whose trimmed line starts with a
\* keyword, -1 when there is none
RECURSIVE FindFooter(_, _)
FindFooter(lines, i) ==
    IF i >= Len(lines) THEN -1
    ELSE IF IsFooterLine(Trim(lines[i + 1])) THEN i
    ELSE FindFooter(lines, i + 1)

\* parseCommitMessage with `footerStartIndex >= bodyStartIndex`: a footer may
\* start at the first non-blank line
parseCommitMessage_FooterAtStart(rawMessage) ==
    LET lines == Split(Trim(rawMessage), "\n")
    IN  IF lines[1] = <<>> THEN Null
        ELSE
        LET firstLine == Trim(lines[1])
            match     == COMMIT_MESSAGE_REGEX(firstLine)
        IN  IF ~match.matched THEN Null
            ELSE
            LET bodyStartIndex   == SkipBlank(lines, 1)
                footerStartIndex == FindFooter(lines, bodyStartIndex)
                body ==
                    IF Len(lines) > 1 /\ footerStartIndex >= bodyStartIndex
                    THEN OrUndefined(Trim(Join(
                             Slice(lines, bodyStartIndex, footerStartIndex), <<"\n">>)))
                    ELSE IF Len(lines) > 1 /\ bodyStartIndex < Len(lines)
                    THEN OrUndefined(Trim(Join(
                             Slice(lines, bodyStartIndex, Len(lines)), <<"\n">>)))
                    ELSE Undefined
                footer ==
                    IF Len(lines) > 1 /\ footerStartIndex >= bodyStartIndex
                    THEN OrUndefined(Trim(Join(
                             Slice(lines, footerStartIndex, Len(lines)), <<"\n">>)))
                    ELSE Undefined
            IN  [isNull |-> FALSE,
                 type |-> match.type,
                 scope |-> OrUndefined(match.scope),
                 subject |-> match.subject,
                 body |-> body,
                 footer |-> footer,
                 raw |-> rawMessage]

parseCommitMessage(rawMessage) ==
    LET lines == Split(Trim(rawMessage), "\n")
    IN  IF lines[1] = <<>> THEN Null
        ELSE
        LET firstLine == Trim(lines[1])
            match     == COMMIT_MESSAGE_REGEX(firstLine)
        IN  IF ~match.matched THEN Null
            ELSE
            LET bodyStartIndex   == SkipBlank(lines, 1)
                footerStartIndex == FindFooter(lines, bodyStartIndex)
                body ==
                    IF Len(lines) > 1 /\ footerStartIndex > bodyStartIndex
                    THEN OrUndefined(Trim(Join(
                             Slice(lines, bodyStartIndex, footerStartIndex), <<"\n">>)))
                    ELSE IF Len(lines) > 1 /\ bodyStartIndex < Len(lines)
                    THEN OrUndefined(Trim(Join(
                             Slice(lines, bodyStartIndex, Len(lines)), <<"\n">>)))
                    ELSE Undefined
                footer ==
                    IF Len(lines) > 1 /\ footerStartIndex > bodyStartIndex
                    THEN OrUndefined(Trim(Join(
                             Slice(lines, footerStartIndex, Len(lines)), <<"\n">>)))
                    ELSE Undefined
            IN  [isNull |-> FALSE,
                 type |-> match.type,
                 scope |-> OrUndefined(match.scope),
                 subject |-> match.subject,
                 body |-> body,
                 footer |-> footer,
                 raw |-> rawMessage]

-----------------------------------------------------------------------------
(* services/validator.core.ts: buildCommitMessage                          *)

\* buildCommitMessage with the parentheses around the scope forgotten
buildCommitMessage_NoParens(type, scope, subject, body, footer) ==
    type
    \o (IF Truthy(scope) THEN scope ELSE <<>>)
    \o <<":", " ">> \o subject
    \o (IF Truthy(body) THEN <<"\n", "\n">> \o body ELSE <<>>)
    \o (IF Truthy(footer) THEN <<"\n", "\n">> \o footer ELSE <<>>)

\* buildCommitMessage with the body appended after a single line break
buildCommitMessage_NoBlankLine(type, scope, subject, body, footer) ==
    type
    \o (IF Truthy(scope) THEN <<"(">> \o scope \o <<")">> ELSE <<>>)
    \o <<":", " ">> \o subject
    \o (IF Truthy(body) THEN <<"\n">> \o body ELSE <<>>)
    \o (IF Truthy(footer) THEN <<"\n", "\n">> \o footer ELSE <<>>)

\* buildCommitMessage with the footer appended before the body
buildCommitMessage_FooterFirst(type, scope, subject, body, footer) ==
    type
    \o (IF Truthy(scope) THEN <<"(">> \o scope \o <<")">> ELSE <<>>)
    \o <<":", " ">> \o subject
    \o (IF Truthy(footer) THEN <<"\n", "\n">> \o footer ELSE <<>>)
    \o (IF Truthy(body) THEN <<"\n", "\n">> \o body ELSE <<>>)

buildCommitMessage(type, scope, subject, body, footer) ==
    type
    \o (IF Truthy(scope) THEN <<"(">> \o scope \o <<")">> ELSE <<>>)
    \o <<":", " ">> \o subject
    \o (IF Truthy(body) THEN <<"\n", "\n">> \o body ELSE <<>>)
    \o (IF Truthy(footer) THEN <<"\n", "\n">> \o footer ELSE <<>>)

-----------------------------------------------------------------------------
(* services/validator.core.ts: the validators.  An error or a warning is   *)
(* recorded by the name of its message; the interpolated counts and type   *)
(* lists are left out.                                                     *)

\* push when the rule fails
PushIf(failed, entry) == IF failed THEN <<entry>> ELSE <<>>

\* the short circuit: isValid = false, one error, return
Fail(error) == [isValid |-> FALSE, errors |-> <<error>>, warnings |-> <<>>]

\* parsed.subject.length > config.subjectMaxLength, with >= for >
ExceedsMax_OffByOne(subject, cfg) == Len(subject) >= cfg.subjectMaxLength

\* parsed.subject.length > config.subjectMaxLength
ExceedsMax(subject, cfg) == Len(subject) > cfg.subjectMaxLength

\* parsed.subject.length < config.subjectMinLength
BelowMin(subject, cfg) == Len(subject) < cfg.subjectMinLength

\* the rules applied to a parsed message, in the order of the code
CheckRules(p, cfg) ==
    LET typeUnknown   == ~Includes(cfg.types, p.type)
        typeNotLower  == ~TYPE_PATTERN(p.type)
        scopeMissing  == cfg.scopeRequired /\ ~Truthy(p.scope)
        scopeBad      == Truthy(p.scope) /\ ~SCOPE_PATTERN(p.scope)
        subjectLong   == ExceedsMax(p.subject, cfg)
        subjectShort  == BelowMin(p.subject, cfg)
        endsWithDot   == ~SUBJECT_NO_PERIOD(p.subject)
        bodyMissing   == cfg.bodyRequired /\ ~Truthy(p.body)
    IN  [isValid |-> ~(typeUnknown \/ typeNotLower \/ scopeMissing \/ scopeBad
                       \/ subjectLong \/ subjectShort \/ bodyMissing),
         errors |-> PushIf(typeUnknown, "InvalidType")
                    \o PushIf(typeNotLower, "TypeNotLowercase")
                    \o PushIf(scopeMissing, "ScopeRequired")
                    \o PushIf(scopeBad, "ScopeFormat")
                    \o PushIf(subjectLong, "SubjectTooLong")
                    \o PushIf(subjectShort, "SubjectTooShort")
                    \o PushIf(bodyMissing, "BodyRequired"),
         warnings |-> PushIf(endsWithDot, "SubjectEndsWithPeriod")]

\* validateCommitMessage with the `return` of the empty check forgotten
validateCommitMessage_NoReturn(msg, cfg) ==
    LET p == parseCommitMessage(msg)
    IN  IF msg = <<>> \/ Trim(msg) = <<>>
        THEN [isValid |-> FALSE, errors |-> <<"EmptyMessage", "BadFormat">>,
              warnings |-> <<>>]
        ELSE IF p = Null THEN Fail("BadFormat")
        ELSE CheckRules(p, cfg)

validateCommitMessage(msg, cfg) ==
    IF msg = <<>> \/ Trim(msg) = <<>> THEN Fail("EmptyMessage")
    ELSE LET p == parseCommitMessage(msg)
         IN  IF p = Null THEN Fail("BadFormat") ELSE CheckRules(p, cfg)

validateType(type, cfg) ==
    IF type = <<>> THEN Fail("TypeEmpty")
    ELSE LET unknown == ~Includes(cfg.types, type)
         IN  [isValid |-> ~unknown,
              errors |-> PushIf(unknown, "InvalidType"),
              warnings |-> <<>>]

\* validateSubject with `result.isValid = false` forgotten in the minimum check
validateSubject_KeepsValid(subject, cfg) ==
    IF subject = <<>> \/ Trim(subject) = <<>> THEN Fail("SubjectEmpty")
    ELSE LET long  == Len(subject) > cfg.subjectMaxLength
             short == Len(subject) < cfg.subjectMinLength
         IN  [isValid |-> ~long,
              errors |-> PushIf(long, "SubjectTooLong")
                         \o PushIf(short, "SubjectTooShort"),
              warnings |-> <<>>]

validateSubject(subject, cfg) ==
    IF subject = <<>> \/ Trim(subject) = <<>> THEN Fail("SubjectEmpty")
    ELSE LET long  == Len(subject) > cfg.subjectMaxLength
             short == Len(subject) < cfg.subjectMinLength
         IN  [isValid |-> ~(long \/ short),
              errors |-> PushIf(long, "SubjectTooLong")
                         \o PushIf(short, "SubjectTooShort"),
              warnings |-> <<>>]

-----------------------------------------------------------------------------
(* Inputs of the parser / builder harness                                  *)

MaxHeadLen == 4
MaxTailLines == 3

\* every string over `chars` of length at most n
RECURSIVE StringsUpTo(_, _)
StringsUpTo(chars, n) ==
    IF n = 0 THEN {<<>>}
    ELSE LET shorter == StringsUpTo(chars, n - 1)
         IN  shorter \cup {w \o <<c>> : w \in shorter, c \in chars}

\* every list over `items` of length 1..n
RECURSIVE ListsUpTo(_, _)
ListsUpTo(items, n) ==
    IF n = 0 THEN {}
    ELSE LET shorter == ListsUpTo(items, n - 1)
         IN  {<<x>> : x \in items} \cup shorter
             \cup {l \o <<x>> : l \in shorter, x \in items}

HeadChars == {"a", "(", ")", ":", " ", "-"}

\* first lines put together from well-formed and ill-formed pieces
HeadTypes == { <<>>,
               <<"a">>,
               <<"a", "1">>,
               <<"a", "-">> }
HeadScopes == { <<>>,
                <<"(", ")">>,
                <<"(", "b", ")">>,
                <<"(", "b", " ", "c", ")">>,
                <<"(", "(", "b", ")">>,
                <<"(", "b", ")", ")">>,
                <<"(", "b">> }
HeadSeps == { <<":">>,
              <<":", " ">>,
              <<":", " ", " ">>,
              <<" ", ":", " ">>,
              <<" ">> }
HeadSubjects == { <<>>,
                  <<"c">>,
                  <<"c", " ", "d">>,
                  <<"c", ".">> }

PiecedHeads ==
    {t \o sc \o sep \o sj :
        t \in HeadTypes, sc \in HeadScopes, sep \in HeadSeps, sj \in HeadSubjects}

\* the lines that may follow the first line
TailLines == { <<>>,
               <<" ">>,
               <<"x">>,
               <<"C", "l", "o", "s", "e", "s", " ", "#", "1">>,
               <<" ", "F", "i", "x", "e", "s">>,
               <<"R", "e", "f", "s">>,
               <<"I", "s", "s", "u", "e">>,
               <<"B", "R", "E", "A", "K", "I", "N", "G", " ", "C", "H", "A", "N", "G", "E", ":", " ", "z">>,
               <<"B", "R", "E", "A", "K", "I", "N", "G", " ", "C", "H", "A", "N", "G", "E">> }

TailHeads == { <<"a", ":", " ", "b">>,
               <<" ", "a", "(", "b", ")", ":", " ", "c">> }

RawTexts ==
    StringsUpTo(HeadChars \cup {"\n"}, MaxHeadLen)
    \cup PiecedHeads
    \cup {Join(<<h>> \o t, <<"\n">>) :
            h \in TailHeads, t \in ListsUpTo(TailLines, MaxTailLines)}

\* structured messages handed to the builder
FieldTypes == { <<"f", "i", "x">>,
                <<"a", "-", "b">> }
FieldScopes == {Undefined, <<>>} \cup { <<"u", "i">>,
                <<"a", " ", "b">>,
                <<"a", ")">> }
FieldSubjects == { <<"c", " ", "d">>,
                   <<" ", "c">> }
FieldBodies == {Undefined, <<>>} \cup { <<"x">>,
                <<"x", "\n", "\n", "y">>,
                <<"x", " ">>,
                <<"R", "e", "f", "s", " ", "1">>,
                <<"x", "\n", "F", "i", "x", "e", "s", " ", "1">> }
FieldFooters == {Undefined} \cup { <<"s", "e", "e", " ", "1">>,
                <<"y", "\n", "z">>,
                <<"C", "l", "o", "s", "e", "s", " ", "#", "1">>,
                <<"x", "\n", "I", "s", "s", "u", "e", " ", "1">> }

StructuredMessages ==
    [type : FieldTypes, scope : FieldScopes, subject : FieldSubjects,
     body : FieldBodies, footer : FieldFooters]

NoFields == [absent |-> TRUE]
NoResult == [pending |-> TRUE]

-----------------------------------------------------------------------------
(* The parser / builder harness: a structured message is built and parsed; *)
(* a raw text is parsed, rebuilt from the parsed fields and parsed again   *)

\* text := buildCommitMessage(...) of the given fields, or of the parsed ones
Build ==
    /\ ppc \in {"build", "parsed"}
    /\ ppc = "parsed" => parsed # Null
    /\ LET m == IF ppc = "build" THEN fields
                ELSE [type |-> parsed.type, scope |-> parsed.scope,
                      subject |-> parsed.subject, body |-> parsed.body,
                      footer |-> parsed.footer]
       IN  /\ fields' = m
           /\ text' = buildCommitMessage(m.type, m.scope, m.subject, m.body, m.footer)
    /\ ppc' = IF ppc = "build" THEN "parse" ELSE "reparse"
    /\ UNCHANGED <<origin, parsed, validateVars, commandVars,
                   aiVars, analyzerVars, configVars,
                   wizardVars, remoteVars, serviceVars>>

\* parsed := parseCommitMessage(text)
Parse ==
    /\ ppc \in {"parse", "reparse"}
    /\ parsed' = parseCommitMessage(text)
    /\ ppc' = IF ppc = "parse" /\ origin = "raw" THEN "parsed" ELSE "done"
    /\ UNCHANGED <<origin, fields, text, validateVars, commandVars,
                   aiVars, analyzerVars, configVars,
                   wizardVars, remoteVars, serviceVars>>

-----------------------------------------------------------------------------
(* Inputs of the validator harness                                         *)

MaxLength == 3

\* the lists config.types is drawn from: the built-in one and two custom ones
TypeLists ==
    { DEFAULT_TYPES,
      <<<<"w", "i", "p">>, <<"F", "i", "x">>>>,
      <<<<"f", "i", "x">>, <<"v", "2">>>> }

Configs ==
    [types : TypeLists,
     typeDescriptions : {DEFAULT_TYPE_DESCRIPTIONS},
     subjectMaxLength : (1..MaxLength) \cup {DEFAULT_CONFIG.subjectMaxLength},
     subjectMinLength : {1, DEFAULT_CONFIG.subjectMinLength, MaxLength},
     scopeRequired : BOOLEAN,
     bodyRequired : BOOLEAN]

InputTypes == { <<"f", "i", "x">>,
                <<"w", "i", "p">>,
                <<"F", "i", "x">>,
                <<"v", "2">> }
InputScopes == {Undefined} \cup { <<"u", "i">>,
                 <<"a", " ", "b">> }
InputSubjects ==
    {Repeat("a", n) : n \in 0..(MaxLength + 1)}
    \cup {Repeat("a", n) : n \in {DEFAULT_CONFIG.subjectMaxLength,
                                  DEFAULT_CONFIG.subjectMaxLength + 1}}
    \cup { <<"a", ".">>,
           <<" ", "a", "a">> }
InputBodies == {Undefined} \cup { <<"x">> }

\* the fields a message is put together from
ValidatorInputs ==
    [type : InputTypes, scope : InputScopes, subject : InputSubjects,
     body : InputBodies]
    \cup [type : {DEFAULT_TYPES[i] : i \in 1..Len(DEFAULT_TYPES)},
          scope : {Undefined}, subject : {Repeat("a", MaxLength)},
          body : {Undefined}]

\* raw texts that are no built message
OtherMessages == { <<>>,
                   <<" ">>,
                   <<"\n", " ", "\n">>,
                   <<"f", "i", "x">>,
                   <<"f", "i", "x", " ", "a", "a", "a">>,
                   <<"f", "i", "x", ":", "a", "a", "a">>,
                   <<"F", "i", "x", ":", "a">> }

-----------------------------------------------------------------------------
(* The validator harness: the bare type and the bare subject are validated *)
(* as they are entered, then the whole message                             *)

ValidateType ==
    /\ ftype # Undefined
    /\ tresult = NoResult
    /\ tresult' = validateType(ftype, config)
    /\ UNCHANGED <<message, ftype, fsubject, config, vresult, sresult,
                   parseVars, commandVars,
                   aiVars, analyzerVars, configVars,
                   wizardVars, remoteVars, serviceVars>>

ValidateSubject ==
    /\ tresult # NoResult
    /\ sresult = NoResult
    /\ sresult' = validateSubject(fsubject, config)
    /\ UNCHANGED <<message, ftype, fsubject, config, vresult, tresult,
                   parseVars, commandVars,
                   aiVars, analyzerVars, configVars,
                   wizardVars, remoteVars, serviceVars>>

ValidateMessage ==
    /\ sresult # NoResult
    /\ vresult = NoResult
    /\ vresult' = validateCommitMessage(message, config)
    /\ UNCHANGED <<message, ftype, fsubject, config, tresult, sresult,
                   parseVars, commandVars,
                   aiVars, analyzerVars, configVars,
                   wizardVars, remoteVars, serviceVars>>

-----------------------------------------------------------------------------
(* services/validatorService.ts: the methods of ValidatorService, which    *)
(* the commands and the wizard call.  cfg is this.config.                  *)

\* the footerKeywords of ValidatorService.parseMessage
serviceFooterKeywords ==
    { <<"B", "R", "E", "A", "K", "I", "N", "G", " ", "C", "H", "A", "N", "G", "E", ":">>,
      <<"C", "l", "o", "s", "e", "s">>,
      <<"F", "i", "x", "e", "s">>,
      <<"R", "e", "f", "s">>,
      <<"I", "s", "s", "u", "e">> }

\* the least of a non-empty set of indexes
Least(indexes) == CHOOSE i \in indexes : \A j \in indexes : i <= j

\* parseMessage, the while loop: the index (from 0) of the first line after
\* line 0 that is not blank, lines.length when there is none
serviceBodyStart(lines) ==
    LET nonBlank == {i \in 1..(Len(lines) - 1) : Trim(lines[i + 1]) # <<>>}
    IN  IF nonBlank = {} THEN Len(lines) ELSE Least(nonBlank)

\* parseMessage, the for loop: the index of the first line from bodyStartIndex
\* on that starts with a keyword once trimmed, -1 when there is none
serviceFooterStart(lines, bodyStartIndex) ==
    LET footerLines ==
            {i \in bodyStartIndex..(Len(lines) - 1) :
                \E keyword \in serviceFooterKeywords :
                    StartsWith(Trim(lines[i + 1]), keyword)}
    IN  IF footerLines = {} THEN -1 ELSE Least(footerLines)

\* lines.slice(from, to).join('\n').trim() || undefined
JoinedLines(lines, from, to) ==
    OrUndefined(Trim(Join(Slice(lines, from, to), <<"\n">>)))

\* parseMessage: the body and the footer of the lines
serviceBodyAndFooter(lines, bodyStartIndex, footerStartIndex) ==
    IF Len(lines) > 1 /\ footerStartIndex > bodyStartIndex
    THEN [body |-> JoinedLines(lines, bodyStartIndex, footerStartIndex),
          footer |-> JoinedLines(lines, footerStartIndex, Len(lines))]
    ELSE IF Len(lines) > 1 /\ bodyStartIndex < Len(lines)
    THEN [body |-> JoinedLines(lines, bodyStartIndex, Len(lines)),
          footer |-> Undefined]
    ELSE [body |-> Undefined, footer |-> Undefined]

\* parseMessage: the message of a first line that matched
serviceParsed(rawMessage, match, rest) ==
    [isNull |-> FALSE,
     type |-> match.type,
     scope |-> OrUndefined(match.scope),
     subject |-> match.subject,
     body |-> rest.body,
     footer |-> rest.footer,
     raw |-> rawMessage]

\* parseMessage from the split lines on
serviceParseLines(rawMessage, lines) ==
    IF Len(lines) = 0 \/ lines[1] = <<>> THEN Null
    ELSE IF ~COMMIT_MESSAGE_REGEX(Trim(lines[1])).matched THEN Null
    ELSE serviceParsed(rawMessage, COMMIT_MESSAGE_REGEX(Trim(lines[1])),
             serviceBodyAndFooter(lines, serviceBodyStart(lines),
                 serviceFooterStart(lines, serviceBodyStart(lines))))

\* ValidatorService.parseMessage
parseMessage(rawMessage) ==
    serviceParseLines(rawMessage, Split(Trim(rawMessage), "\n"))

\* the result after `result.isValid = false; result.errors.push(error)`
Rejected(result, error) ==
    [result EXCEPT !.isValid = FALSE, !.errors = Append(@, error)]

\* the result after `result.warnings.push(warning)`
Warned(result, warning) == [result EXCEPT !.warnings = Append(@, warning)]

\* `{ isValid: true, errors: [], warnings: [] }`
Accepted == [isValid |-> TRUE, errors |-> <<>>, warnings |-> <<>>]

\* the `if` statements of a method one after the other: each one that fires
\* pushes its error (and clears isValid) or its warning
RECURSIVE ApplyChecks(_, _)
ApplyChecks(result, checks) ==
    IF checks = <<>> THEN result
    ELSE ApplyChecks(
             IF ~Head(checks).fires THEN result
             ELSE IF Head(checks).warning # ""
             THEN Warned(result, Head(checks).warning)
             ELSE Rejected(result, Head(checks).error),
             Tail(checks))

Check(fires, error) == [fires |-> fires, error |-> error, warning |-> ""]
WarningCheck(fires, warning) == [fires |-> fires, error |-> "", warning |-> warning]

\* validate: the checks of a parsed message, in the order of the code
serviceChecks(p, cfg) ==
    << Check(~Includes(cfg.types, p.type), "InvalidType"),
       Check(~TYPE_PATTERN(p.type), "TypeNotLowercase"),
       Check(cfg.scopeRequired /\ ~Truthy(p.scope), "ScopeRequired"),
       Check(Truthy(p.scope) /\ ~SCOPE_PATTERN(p.scope), "ScopeFormat"),
       Check(Len(p.subject) > cfg.subjectMaxLength, "SubjectTooLong"),
       Check(Len(p.subject) < cfg.subjectMinLength, "SubjectTooShort"),
       WarningCheck(~SUBJECT_NO_PERIOD(p.subject), "SubjectEndsWithPeriod"),
       Check(cfg.bodyRequired /\ ~Truthy(p.body), "BodyRequired") >>

\* validate from the parsed message on
serviceValidateParsed(p, cfg) ==
    IF p = Null THEN Rejected(Accepted, "BadFormat")
    ELSE ApplyChecks(Accepted, serviceChecks(p, cfg))

\* ValidatorService.validate without the check of the body
validate_NoBodyRule(msg, cfg) ==
    IF ~Truthy(msg) \/ ~Truthy(Trim(msg)) THEN Rejected(Accepted, "EmptyMessage")
    ELSE IF parseMessage(msg) = Null THEN Rejected(Accepted, "BadFormat")
    ELSE ApplyChecks(Accepted, SubSeq(serviceChecks(parseMessage(msg), cfg), 1, 7))

\* ValidatorService.validate
validate(msg, cfg) ==
    IF ~Truthy(msg) \/ ~Truthy(Trim(msg)) THEN Rejected(Accepted, "EmptyMessage")
    ELSE serviceValidateParsed(parseMessage(msg), cfg)

\* ValidatorService.validateType
serviceValidateType(type, cfg) ==
    IF ~Truthy(type) THEN Rejected(Accepted, "TypeEmpty")
    ELSE ApplyChecks(Accepted, << Check(~Includes(cfg.types, type), "InvalidType") >>)

\* ValidatorService.validateSubject
serviceValidateSubject(subject, cfg) ==
    IF ~Truthy(subject) \/ ~Truthy(Trim(subject))
    THEN Rejected(Accepted, "SubjectEmpty")
    ELSE ApplyChecks(Accepted,
             << Check(Len(subject) > cfg.subjectMaxLength, "SubjectTooLong"),
                Check(Len(subject) < cfg.subjectMinLength, "SubjectTooShort") >>)

\* ValidatorService.buildCommitMessage: `message +=` piece by piece
serviceBuildCommitMessage(type, scope, subject, body, footer) ==
    Join(<< type,
            IF Truthy(scope) THEN <<"(">> \o scope \o <<")">> ELSE <<>>,
            <<":", " ">>, subject,
            IF Truthy(body) THEN <<"\n", "\n">> \o body ELSE <<>>,
            IF Truthy(footer) THEN <<"\n", "\n">> \o footer ELSE <<>> >>, <<>>)

-----------------------------------------------------------------------------
(* commands/commit.ts: executeCommitCommand and executeQuickCommitCommand. *)
(* Every await is a step; what the collaborators and the user answer is    *)
(* chosen freely.                                                          *)

FlowTypes == { <<"f", "i", "x">>,
               <<"w", "i", "p">>,
               <<"F", "i", "x">> }
FlowScopes == {Undefined} \cup { <<"u", "i">>,
                <<"a", " ", "b">> }
FlowSubjects == { <<"a", "a", "a">>,
                  <<"a", "a", "a", ".">>,
                  <<"a">> }
FlowBodies == {Undefined} \cup { <<"x">> }
FlowFooters == {Undefined} \cup { <<"C", "l", "o", "s", "e", "s", " ", "#", "1">> }

\* the ICommitMessage an input flow returns: the fields and the built raw text
FlowMessage(type, scope, subject, body, footer) ==
    [type |-> type, scope |-> scope, subject |-> subject, body |-> body,
     footer |-> footer,
     raw |-> buildCommitMessage(type, scope, subject, body, footer)]

FlowMessages ==
    {FlowMessage(t, sc, sj, b, f) :
        t \in FlowTypes, sc \in FlowScopes, sj \in FlowSubjects,
        b \in FlowBodies, f \in FlowFooters}

\* what the prompts of showCommitInputFlow and showSmartCommitInputFlow let
\* through: a type of the list, a scope of the scope characters (required or
\* not), a subject within the bounds that does not end with a period
WizardAccepts(m, cfg) ==
    /\ Includes(cfg.types, m.type)
    /\ IF m.scope = Undefined THEN ~cfg.scopeRequired ELSE SCOPE_PATTERN(m.scope)
    /\ Len(m.subject) >= cfg.subjectMinLength
    /\ Len(m.subject) <= cfg.subjectMaxLength
    /\ m.subject[Len(m.subject)] # "."

\* the messages a flow may return; the AI flow hands on what the remote
\* service generated, without a footer, unless the user edits it
FlowResults(method, cfg) ==
    IF method = "ai"
    THEN {m \in FlowMessages : m.footer = Undefined \/ WizardAccepts(m, cfg)}
    ELSE {m \in FlowMessages : WizardAccepts(m, cfg)}

\* where the command goes after validator.validate, ignoring isValid
AfterValidation_NoReturn(cmd, result) ==
    IF cmd = "quick" THEN "commit"
    ELSE IF result.warnings # <<>> THEN "warn"
    ELSE "confirm"

\* where the command goes after validator.validate
AfterValidation(cmd, result) ==
    IF ~result.isValid THEN "done"
    ELSE IF cmd = "quick" THEN "commit"
    ELSE IF result.warnings # <<>> THEN "warn"
    ELSE "confirm"

Show(notice) == notices' = Append(notices, notice)
Answer(prompt, answer) == answers' = Append(answers, <<prompt, answer>>)

\* gitService.isGitRepository()
CheckRepository ==
    /\ pc = "start"
    /\ \E isGitRepo \in BOOLEAN :
          IF isGitRepo THEN pc' = "staged" /\ UNCHANGED notices
          ELSE pc' = "done" /\ Show("NotGitRepository")
    /\ UNCHANGED <<command, svcConfig, commitMessage, validation, commits,
                   answers, parseVars, validateVars,
                   aiVars, analyzerVars, configVars,
                   wizardVars, remoteVars, serviceVars>>

\* gitService.hasStagedChanges()
CheckStaged ==
    /\ pc = "staged"
    /\ \E hasStagedChanges \in BOOLEAN :
          IF hasStagedChanges
          THEN /\ pc' = IF command = "commit" THEN "preview" ELSE "input_manual"
               /\ UNCHANGED notices
          ELSE /\ pc' = "done"
               /\ \E help \in BOOLEAN :
                     notices' = IF command = "commit" /\ help
                                THEN notices \o <<"NothingStaged", "StagingHelp">>
                                ELSE Append(notices, "NothingStaged")
    /\ UNCHANGED <<command, svcConfig, commitMessage, validation, commits,
                   answers, parseVars, validateVars,
                   aiVars, analyzerVars, configVars,
                   wizardVars, remoteVars, serviceVars>>

\* showDiffPreview: continue, or look at the details and continue
DiffPreview ==
    /\ pc = "preview"
    /\ \E first \in {"continue", "details", "cancel", "dismissed"} :
       \E second \in {"continue", "cancel", "dismissed"} :
          LET answer == IF first = "details" THEN second ELSE first
          IN  /\ Answer("showDiffPreview", answer)
              /\ IF answer = "continue"
                 THEN pc' = "method" /\ UNCHANGED notices
                 ELSE pc' = "done" /\ Show("Cancelled")
    /\ UNCHANGED <<command, svcConfig, commitMessage, validation, commits,
                   parseVars, validateVars,
                   aiVars, analyzerVars, configVars,
                   wizardVars, remoteVars, serviceVars>>

\* showAIGenerateOption
ChooseMethod ==
    /\ pc = "method"
    /\ \E choice \in {"ai", "smart", "manual", "configure", "dismissed"} :
          /\ Answer("showAIGenerateOption", choice)
          /\ IF choice \in {"ai", "smart", "manual"}
             THEN pc' = "input_" \o choice /\ UNCHANGED notices
             ELSE pc' = "done" /\ Show("Cancelled")
    /\ UNCHANGED <<command, svcConfig, commitMessage, validation, commits,
                   parseVars, validateVars,
                   aiVars, analyzerVars, configVars,
                   wizardVars, remoteVars, serviceVars>>

\* the input flow returns a message
FlowReturns ==
    /\ pc \in {"input_ai", "input_smart", "input_manual"}
    /\ \E m \in FlowResults(IF pc = "input_ai" THEN "ai" ELSE "wizard", svcConfig) :
          commitMessage' = m
    /\ pc' = "validate"
    /\ UNCHANGED <<command, svcConfig, validation, commits, notices, answers,
                   parseVars, validateVars,
                   aiVars, analyzerVars, configVars,
                   wizardVars, remoteVars, serviceVars>>

\* the user leaves the input flow: it returns undefined
FlowCancelled ==
    /\ pc \in {"input_ai", "input_smart", "input_manual"}
    /\ pc' = "done"
    /\ Answer("inputFlow", "dismissed")
    /\ IF command = "commit" THEN Show("Cancelled") ELSE UNCHANGED notices
    /\ UNCHANGED <<command, svcConfig, commitMessage, validation, commits,
                   parseVars, validateVars,
                   aiVars, analyzerVars, configVars,
                   wizardVars, remoteVars, serviceVars>>

\* how often the AI generation may fail in one run
MaxAIFailures == 2

AIFailures ==
    Cardinality({i \in 1..Len(answers) : answers[i][1] = "aiFailed"})

\* showAICommitInputFlow: the generation failed and the user picks what next
AIFailed ==
    /\ pc = "input_ai"
    /\ \E retry \in {"ai", "smart", "manual"} :
          /\ Answer("aiFailed", retry)
          /\ pc' = "input_" \o retry
    /\ AIFailures < MaxAIFailures
    /\ UNCHANGED <<command, svcConfig, commitMessage, validation, commits,
                   notices, parseVars, validateVars,
                   aiVars, analyzerVars, configVars,
                   wizardVars, remoteVars, serviceVars>>

\* validator.validate(commitMessage.raw)
ValidateStep ==
    /\ pc = "validate"
    /\ LET result == validate(commitMessage.raw, svcConfig)
       IN  /\ validation' = [input |-> commitMessage.raw, result |-> result]
           /\ pc' = AfterValidation(command, result)
           /\ IF result.isValid THEN UNCHANGED notices
              ELSE Show("ValidationFailed")
    /\ UNCHANGED <<command, svcConfig, commitMessage, commits, answers,
                   parseVars, validateVars,
                   aiVars, analyzerVars, configVars,
                   wizardVars, remoteVars, serviceVars>>

\* the warning prompt of executeCommitCommand
WarningPrompt ==
    /\ pc = "warn"
    /\ \E proceed \in {"continue", "cancel", "dismissed"} :
          /\ Answer("showWarningMessage", proceed)
          /\ pc' = IF proceed = "continue" THEN "confirm" ELSE "done"
    /\ UNCHANGED <<command, svcConfig, commitMessage, validation, commits,
                   notices, parseVars, validateVars,
                   aiVars, analyzerVars, configVars,
                   wizardVars, remoteVars, serviceVars>>

\* showCommitConfirmation
Confirmation ==
    /\ pc = "confirm"
    /\ \E confirmed \in {"confirm", "cancel", "dismissed"} :
          /\ Answer("showCommitConfirmation", confirmed)
          /\ IF confirmed = "confirm"
             THEN pc' = "commit" /\ UNCHANGED notices
             ELSE pc' = "done" /\ Show("Cancelled")
    /\ UNCHANGED <<command, svcConfig, commitMessage, validation, commits,
                   parseVars, validateVars,
                   aiVars, analyzerVars, configVars,
                   wizardVars, remoteVars, serviceVars>>

\* gitService.commit(commitMessage.raw): it succeeds or it throws, and the
\* catch block reports the failure
GitCommit ==
    /\ pc = "commit"
    /\ commits' = Append(commits, commitMessage.raw)
    /\ \E thrown \in BOOLEAN :
          Show(IF thrown THEN "CommitFailed" ELSE "CommitSucceeded")
    /\ pc' = "done"
    /\ UNCHANGED <<command, svcConfig, commitMessage, validation, answers,
                   parseVars, validateVars,
                   aiVars, analyzerVars, configVars,
                   wizardVars, remoteVars, serviceVars>>

-----------------------------------------------------------------------------
(* services/aiService.core.ts: truncateDiff                                *)

truncateNote ==
    <<"\n", ".", ".", ".", " ", "(", "d", "i", "f", "f", " ", "c", "o", "n", "t", "e", "n", "t", " ", "t", "r", "u", "n", "c", "a", "t", "e", "d", ")", " ", ".", ".", ".">>

\* the for loop: how many lines are pushed before the note is, or the lines end
RECURSIVE KeptLines(_, _, _)
KeptLines(lines, currentLength, limit) ==
    IF lines = <<>> THEN 0
    ELSE IF currentLength + Len(Head(lines)) + 1 > limit THEN 0
    ELSE 1 + KeptLines(Tail(lines), currentLength + Len(Head(lines)) + 1, limit)

truncateDiff(diff, max) ==
    IF Len(diff) <= max THEN diff
    ELSE LET lines == Split(diff, "\n")
             reservedLength == Len(truncateNote)
             kept == KeptLines(lines, 0, max - reservedLength)
             result == SubSeq(lines, 1, kept)
                       \o (IF kept < Len(lines) THEN <<truncateNote>> ELSE <<>>)
         IN  Join(result, <<"\n">>)

-----------------------------------------------------------------------------
(* services/aiService.core.ts: parseAIResponse.  A response text is a      *)
(* sequence of tokens: the fence ```, the word json, white space, any      *)
(* other text, and a well-formed JSON document given by its value.         *)

Fence == [tok |-> "fence"]
JsonWord == [tok |-> "json"]
Space == [tok |-> "space"]
Prose == [tok |-> "prose"]
Doc(value) == [tok |-> "doc", value |-> value]

\* JSON values, and the undefined of a property that is not there
JStr(chars) == [str |-> chars]
JNum(n) == [num |-> n]
JBool(b) == [bool |-> b]
JNull == [null |-> TRUE]
JEmptyObject == [object |-> TRUE]
JEmptyArray == [array |-> TRUE]
JArray(items) == [items |-> items]
JObject(props) == [props |-> props]
Missing == [missing |-> TRUE]

IsKind(v, kind) == kind \in DOMAIN v

\* truthiness of a JavaScript value
JsTruthy(v) ==
    IF IsKind(v, "str") THEN v.str # <<>>
    ELSE IF IsKind(v, "num") THEN v.num # 0
    ELSE IF IsKind(v, "bool") THEN v.bool
    ELSE \/ IsKind(v, "object") \/ IsKind(v, "array")
         \/ IsKind(v, "props") \/ IsKind(v, "items")

DigitSeq == <<"0", "1", "2", "3", "4", "5", "6", "7", "8", "9">>

\* String(n) of a natural number
RECURSIVE NumText(_)
NumText(n) ==
    IF n < 10 THEN <<DigitSeq[n + 1]>>
    ELSE NumText(n \div 10) \o <<DigitSeq[(n % 10) + 1]>>

\* String(v)
JsString(v) ==
    IF IsKind(v, "str") THEN v.str
    ELSE IF IsKind(v, "num") THEN NumText(v.num)
    ELSE IF IsKind(v, "bool")
         THEN (IF v.bool THEN <<"t", "r", "u", "e">> ELSE <<"f", "a", "l", "s", "e">>)
    ELSE IF IsKind(v, "null") THEN <<"n", "u", "l", "l">>
    ELSE IF IsKind(v, "array") THEN <<>>
    ELSE IF IsKind(v, "missing") THEN <<"u", "n", "d", "e", "f", "i", "n", "e", "d">>
    ELSE <<"[", "o", "b", "j", "e", "c", "t", " ", "O", "b", "j", "e", "c", "t", "]">>

UpperSeq == <<"A", "B", "C", "D", "E", "F", "G", "H", "I", "J", "K", "L", "M",
              "N", "O", "P", "Q", "R", "S", "T", "U", "V", "W", "X", "Y", "Z">>
LowerSeq == <<"a", "b", "c", "d", "e", "f", "g", "h", "i", "j", "k", "l", "m",
              "n", "o", "p", "q", "r", "s", "t", "u", "v", "w", "x", "y", "z">>

\* String.prototype.toLowerCase
ToLowerCase(s) ==
    [i \in 1..Len(s) |->
        IF s[i] \in UpperChars
        THEN LowerSeq[CHOOSE k \in 1..Len(UpperSeq) : UpperSeq[k] = s[i]]
        ELSE s[i]]

\* indices of the fences of a response
FenceAt(c) == {i \in 1..Len(c) : c[i] = Fence}

RECURSIVE TrimTokens(_)
TrimTokens(c) ==
    IF c # <<>> /\ Head(c) = Space THEN TrimTokens(Tail(c))
    ELSE IF c # <<>> /\ c[Len(c)] = Space THEN TrimTokens(SubSeq(c, 1, Len(c) - 1))
    ELSE c

\* content.match(/```(?:json)?\s*([\s\S]*?)```/): the text between the first
\* two fences, after the word json if it follows the fence at once; trimmed
JsonStr(c) ==
    IF Cardinality(FenceAt(c)) < 2 THEN c
    ELSE LET open   == CHOOSE i \in FenceAt(c) : \A j \in FenceAt(c) : i <= j
             close  == CHOOSE i \in FenceAt(c) \ {open} :
                           \A j \in FenceAt(c) \ {open} : i <= j
             inner  == SubSeq(c, open + 1, close - 1)
             tagged == inner # <<>> /\ Head(inner) = JsonWord
         IN  TrimTokens(IF tagged THEN Tail(inner) ELSE inner)

\* what the catch block throws
ParseFailure(detail) ==
    [thrown |-> <<"F", "a", "i", "l", "e", "d", " ", "t", "o", " ", "p", "a", "r", "s", "e", " ", "A", "I", " ", "r", "e", "s", "p", "o", "n", "s", "e", ":", " ">> \o detail]

\* e.message of the SyntaxError of JSON.parse
SyntaxErrorMessage == <<"U", "n", "e", "x", "p", "e", "c", "t", "e", "d", " ", "t", "o", "k", "e", "n">>

\* e.message of the TypeError of reading a property of null
TypeErrorMessage == <<"C", "a", "n", "n", "o", "t", " ", "r", "e", "a", "d", " ", "p", "r", "o", "p", "e", "r", "t", "i", "e", "s", " ", "o", "f", " ", "n", "u", "l", "l", " ", "(", "r", "e", "a", "d", "i", "n", "g", " ", "'", "t", "y", "p", "e", "'", ")">>

MissingFieldsMessage == <<"M", "i", "s", "s", "i", "n", "g", " ", "r", "e", "q", "u", "i", "r", "e", "d", " ", "f", "i", "e", "l", "d", "s", ":", " ", "t", "y", "p", "e", " ", "a", "n", "d", " ", "s", "u", "b", "j", "e", "c", "t">>

\* parsed.<name> of a parsed JSON value that is not null
Prop(value, name) ==
    IF IsKind(value, "props") THEN value.props[name] ELSE Missing

\* `v ? String(v) : undefined`
TextOrUndefined(v) == IF JsTruthy(v) THEN JsString(v) ELSE Undefined

\* parseAIResponse with the required-fields check left out
parseAIResponse_NoCheck(c) ==
    LET jsonStr == JsonStr(c)
        trimmed == TrimTokens(jsonStr)
    IN  IF ~(Len(trimmed) = 1 /\ trimmed[1].tok = "doc")
        THEN ParseFailure(SyntaxErrorMessage)
        ELSE LET parsed_ == trimmed[1].value
             IN  IF parsed_ = JNull THEN ParseFailure(TypeErrorMessage)
                 ELSE [type |-> ToLowerCase(JsString(Prop(parsed_, "type"))),
                       scope |-> TextOrUndefined(Prop(parsed_, "scope")),
                       subject |-> JsString(Prop(parsed_, "subject")),
                       body |-> TextOrUndefined(Prop(parsed_, "body")),
                       reasoning |-> TextOrUndefined(Prop(parsed_, "reasoning"))]

\* parseAIResponse with toLowerCase left out
parseAIResponse_KeepsCase(c) ==
    LET jsonStr == JsonStr(c)
        trimmed == TrimTokens(jsonStr)
    IN  IF ~(Len(trimmed) = 1 /\ trimmed[1].tok = "doc")
        THEN ParseFailure(SyntaxErrorMessage)
        ELSE LET parsed_ == trimmed[1].value
             IN  IF parsed_ = JNull THEN ParseFailure(TypeErrorMessage)
                 ELSE IF ~JsTruthy(Prop(parsed_, "type"))
                         \/ ~JsTruthy(Prop(parsed_, "subject"))
                 THEN ParseFailure(MissingFieldsMessage)
                 ELSE [type |-> JsString(Prop(parsed_, "type")),
                       scope |-> TextOrUndefined(Prop(parsed_, "scope")),
                       subject |-> JsString(Prop(parsed_, "subject")),
                       body |-> TextOrUndefined(Prop(parsed_, "body")),
                       reasoning |-> TextOrUndefined(Prop(parsed_, "reasoning"))]

\* JSON.parse tolerates white space around the one document
parseAIResponse(c) ==
    LET jsonStr == JsonStr(c)
        trimmed == TrimTokens(jsonStr)
    IN  IF ~(Len(trimmed) = 1 /\ trimmed[1].tok = "doc")
        THEN ParseFailure(SyntaxErrorMessage)
        ELSE LET parsed_ == trimmed[1].value
             IN  IF parsed_ = JNull THEN ParseFailure(TypeErrorMessage)
                 ELSE IF ~JsTruthy(Prop(parsed_, "type"))
                         \/ ~JsTruthy(Prop(parsed_, "subject"))
                 THEN ParseFailure(MissingFieldsMessage)
                 ELSE [type |-> ToLowerCase(JsString(Prop(parsed_, "type"))),
                       scope |-> TextOrUndefined(Prop(parsed_, "scope")),
                       subject |-> JsString(Prop(parsed_, "subject")),
                       body |-> TextOrUndefined(Prop(parsed_, "body")),
                       reasoning |-> TextOrUndefined(Prop(parsed_, "reasoning"))]

-----------------------------------------------------------------------------
(* Inputs and steps of the AI helper harness                               *)

MaxDiffLines == 3

DiffLines ==
    { <<>>,
      <<"+", "a">>,
      <<"-", "b", "b">>,
      <<"@", "@", " ", "-", "1", " ", "+", "1", " ", "@", "@">>,
      Repeat("x", Len(truncateNote) - 3) }

DiffTexts == {Join(ls, <<"\n">>) : ls \in ListsUpTo(DiffLines, MaxDiffLines)}

\* maximum lengths below, around and above the length of the note
MaxLengths ==
    {5, 10}
    \cup {Len(truncateNote) + d : d \in {-1, 0, 1, 3, 5, 7, 17, 37}}

MaxResponseTokens == 4

\* the values a model may send for the fields of its answer
TypeValues ==
    {Missing, JNull, JNum(0), JNum(7), JEmptyObject,
     JStr(<<>>), JStr(<<"F", "e", "a", "t">>), JStr(<<"f", "i", "x">>)}
SubjectValues == {Missing, JNum(7), JStr(<<>>), JStr(<<"A", "d", "d", " ", "X">>)}
ScopeValues ==
    {Missing, JNull, JNum(0), JBool(FALSE), JStr(<<>>), JStr(<<"U", "I">>)}
BodyValues == {Missing, JStr(<<>>), JStr(<<"b">>)}
ReasoningValues == {Missing, JNull, JBool(TRUE), JStr(<<"r">>)}

JsonObjects ==
    {JObject([type |-> t, scope |-> sc, subject |-> sj, body |-> b, reasoning |-> r]) :
        t \in TypeValues, sc \in ScopeValues, sj \in SubjectValues,
        b \in BodyValues, r \in ReasoningValues}

JsonValues ==
    JsonObjects \cup {JNull, JNum(7), JStr(<<"f", "i", "x">>), JEmptyArray, JEmptyObject}

\* a complete answer and one without a subject
SampleValues ==
    { JObject([type |-> JStr(<<"F", "I", "X">>), scope |-> Missing,
               subject |-> JStr(<<"x">>), body |-> Missing,
               reasoning |-> Missing]),
      JObject([type |-> JStr(<<"f", "i", "x">>), scope |-> Missing,
               subject |-> Missing, body |-> Missing, reasoning |-> Missing]) }

\* every response of at most n tokens around the document of value v
RECURSIVE ResponsesUpTo(_, _)
ResponsesUpTo(v, n) ==
    IF n = 0 THEN {<<>>}
    ELSE LET shorter == ResponsesUpTo(v, n - 1)
         IN  shorter \cup {c \o <<t>> : c \in shorter,
                                        t \in {Fence, JsonWord, Space, Prose, Doc(v)}}

\* the bare document, and the document in a fenced block with the json tag
Wrappings(v) ==
    { <<Doc(v)>>,
      <<Fence, JsonWord, Space, Doc(v), Space, Fence>>,
      <<Prose, Space, Fence, Space, Doc(v), Fence, Space, Fence, Prose, Fence>> }

Responses ==
    UNION {ResponsesUpTo(v, MaxResponseTokens) : v \in SampleValues}
    \cup UNION {Wrappings(v) : v \in JsonValues}

NoContent == <<[tok |-> "none"]>>

\* aiResult := parseAIResponse(content), or what it throws
ParseResponse ==
    /\ content # NoContent
    /\ aiResult = NoResult
    /\ aiResult' = parseAIResponse(content)
    /\ UNCHANGED <<diffContent, maxLength, truncated, content,
                   parseVars, validateVars, commandVars, analyzerVars, configVars,
                   wizardVars, remoteVars, serviceVars>>

\* truncated := truncateDiff(diffContent, maxLength)
Truncate ==
    /\ diffContent # Undefined
    /\ truncated = Undefined
    /\ truncated' = truncateDiff(diffContent, maxLength)
    /\ UNCHANGED <<diffContent, maxLength, content, aiResult,
                   parseVars, validateVars, commandVars, analyzerVars, configVars,
                   wizardVars, remoteVars, serviceVars>>

-----------------------------------------------------------------------------
(* services/diffAnalyzer.ts: analyzeDiff.  A staged file is a record of its *)
(* path and its one-letter status.  A character outside ASCII is written   *)
(* by its code point, "U+6587" for instance.                               *)

\* s.endsWith(suffix), the $ of a pattern
EndsWith(s, suffix) ==
    /\ Len(s) >= Len(suffix)
    /\ SubSeq(s, Len(s) - Len(suffix) + 1, Len(s)) = suffix

\* /w/.test(s) for a pattern w of literal characters
Matches(s, w) ==
    \E i \in 1..(Len(s) - Len(w) + 1) : SubSeq(s, i, i + Len(w) - 1) = w

DIR_TO_MODULE ==
    LET keys == { <<"t", "e", "s", "t">>,
                  <<"t", "e", "s", "t", "s">>,
                  <<"_", "_", "t", "e", "s", "t", "s", "_", "_">>,
                  <<"d", "o", "c", "s">>,
                  <<"c", "o", "n", "f", "i", "g">>,
                  <<"a", "p", "i">>,
                  <<"c", "o", "m", "p", "o", "n", "e", "n", "t", "s">>,
                  <<"s", "e", "r", "v", "i", "c", "e", "s">>,
                  <<"u", "t", "i", "l", "s">>,
                  <<"m", "o", "d", "e", "l", "s">> }
    IN  [k \in keys |->
            IF k \in {<<"t", "e", "s", "t">>, <<"t", "e", "s", "t", "s">>, <<"_", "_", "t", "e", "s", "t", "s", "_", "_">>} THEN <<"t", "e", "s", "t">>
            ELSE IF k = <<"c", "o", "m", "p", "o", "n", "e", "n", "t", "s">> THEN <<"u", "i">>
            ELSE k]

isTestFile(path) ==
    \/ \E a \in {<<".", "t", "e", "s", "t">>, <<".", "s", "p", "e", "c">>} :
       \E b \in {<<".", "t", "s">>, <<".", "j", "s">>, <<".", "t", "s", "x">>, <<".", "j", "s", "x">>} :
          EndsWith(path, a \o b)
    \/ \E d \in {<<"/", "t", "e", "s", "t", "/">>,
                 <<"/", "t", "e", "s", "t", "s", "/">>,
                 <<"/", "_", "_", "t", "e", "s", "t", "s", "_", "_", "/">>} :
          Matches(path, d)

isDocFile(path) ==
    \/ \E e \in {<<".", "m", "d">>, <<".", "t", "x", "t">>, <<".", "r", "s", "t">>} : EndsWith(path, e)
    \/ \E d \in {<<"/", "d", "o", "c", "/">>, <<"/", "d", "o", "c", "s", "/">>} :
          Matches(path, d)

isConfigFile(path) ==
    \/ \E e \in {<<".", "j", "s", "o", "n">>, <<".", "y", "a", "m", "l">>,
                 <<".", "y", "m", "l">>, <<".", "t", "o", "m", "l">>,
                 <<".", "i", "n", "i">>} : EndsWith(path, e)
    \/ Matches(path, <<"c", "o", "n", "f", "i", "g">>)
    \/ StartsWith(path, <<".">>)

isStyleFile(path) ==
    \E e \in {<<".", "c", "s", "s">>, <<".", "s", "c", "s", "s">>,
              <<".", "l", "e", "s", "s">>, <<".", "s", "a", "s", "s">>} : EndsWith(path, e)

\* the paths of the files of one status, in order
RECURSIVE PathsWithStatus(_, _)
PathsWithStatus(files, status) ==
    IF files = <<>> THEN <<>>
    ELSE (IF Head(files).status = status THEN <<Head(files).path>> ELSE <<>>)
         \o PathsWithStatus(Tail(files), status)

analyzeFiles(files) ==
    LET Has(isKind(_)) ==
            \E i \in 1..Len(files) : isKind(ToLowerCase(files[i].path))
    IN  [added |-> PathsWithStatus(files, "A"),
         modified |-> PathsWithStatus(files, "M"),
         deleted |-> PathsWithStatus(files, "D"),
         hasTest |-> Has(isTestFile),
         hasDoc |-> Has(isDocFile),
         hasConfig |-> Has(isConfigFile),
         hasStyle |-> Has(isStyleFile)]

\* TypeOfChanges with the type "update" for modified files only
TypeOfChanges_Update(a) ==
    IF Len(a.deleted) > 0 /\ Len(a.added) = 0 /\ Len(a.modified) = 0
    THEN <<"c", "h", "o", "r", "e">>
    ELSE IF Len(a.added) > 0 THEN <<"f", "e", "a", "t">>
    ELSE IF Len(a.modified) > 0 THEN <<"u", "p", "d", "a", "t", "e">>
    ELSE <<"c", "h", "o", "r", "e">>

\* the rules on the change kinds, after the rules on the file kinds
TypeOfChanges(a) ==
    IF Len(a.deleted) > 0 /\ Len(a.added) = 0 /\ Len(a.modified) = 0
    THEN <<"c", "h", "o", "r", "e">>
    ELSE IF Len(a.added) > 0 THEN <<"f", "e", "a", "t">>
    ELSE IF Len(a.modified) > 0 THEN <<"f", "i", "x">>
    ELSE <<"c", "h", "o", "r", "e">>

\* determineType without the test on every file
determineType_NoEvery(a, files) ==
    IF a.hasTest THEN <<"t", "e", "s", "t">>
    ELSE IF a.hasDoc THEN <<"d", "o", "c", "s">>
    ELSE IF a.hasConfig THEN <<"c", "h", "o", "r", "e">>
    ELSE IF a.hasStyle THEN <<"s", "t", "y", "l", "e">>
    ELSE TypeOfChanges(a)

determineType(a, files) ==
    LET Every(isKind(_)) == \A i \in 1..Len(files) : isKind(files[i].path)
    IN
    IF a.hasTest /\ Every(isTestFile) THEN <<"t", "e", "s", "t">>
    ELSE IF a.hasDoc /\ Every(isDocFile) THEN <<"d", "o", "c", "s">>
    ELSE IF a.hasConfig /\ Every(isConfigFile) THEN <<"c", "h", "o", "r", "e">>
    ELSE IF a.hasStyle /\ Every(isStyleFile) THEN <<"s", "t", "y", "l", "e">>
    ELSE TypeOfChanges(a)

\* the loop over the directory parts of one path: what it adds to dirs
RECURSIVE ScanParts(_, _)
ScanParts(parts, i) ==
    IF i > Len(parts) THEN {}
    ELSE LET key == ToLowerCase(parts[i])
         IN  IF key \in DOMAIN DIR_TO_MODULE THEN {DIR_TO_MODULE[key]}
             ELSE IF key \notin {<<"s", "r", "c">>, <<"l", "i", "b">>}
                  THEN {parts[i]}
             ELSE ScanParts(parts, i + 1)

determineScope(files) ==
    IF Len(files) = 0 THEN Undefined
    ELSE LET DirsOf(path) ==
                 LET parts == Split(path, "/")
                 IN  IF Len(parts) > 1
                     THEN ScanParts(Slice(parts, 0, Len(parts) - 1), 1)
                     ELSE {}
             dirs == UNION {DirsOf(files[i].path) : i \in 1..Len(files)}
         IN  IF Cardinality(dirs) = 1 THEN CHOOSE d \in dirs : TRUE
             ELSE Undefined

getFileName(path) ==
    LET parts == Split(path, "/")
        last == parts[Len(parts)]
    IN  IF last # <<>> THEN last ELSE path

\* `<verb> <name>` for one path, `<verb> N files` for several
VerbCount(verb, paths) ==
    IF Len(paths) = 1 THEN verb \o <<" ">> \o getFileName(paths[1])
    ELSE verb \o <<" ">> \o NumText(Len(paths)) \o <<" ", "f", "i", "l", "e", "s">>

generateSubject(a, files) ==
    LET single == Len(files) = 1
        name == getFileName(files[1].path)
        changes ==
            (IF Len(a.added) > 0 THEN << <<"+">> \o NumText(Len(a.added)) >> ELSE <<>>)
            \o (IF Len(a.modified) > 0
                THEN << <<"~">> \o NumText(Len(a.modified)) >> ELSE <<>>)
            \o (IF Len(a.deleted) > 0
                THEN << <<"-">> \o NumText(Len(a.deleted)) >> ELSE <<>>)
    IN  IF single /\ files[1].status = "A" THEN <<"a", "d", "d", " ">> \o name
        ELSE IF single /\ files[1].status = "M" THEN <<"u", "p", "d", "a", "t", "e", " ">> \o name
        ELSE IF single /\ files[1].status = "D" THEN <<"r", "e", "m", "o", "v", "e", " ">> \o name
        ELSE IF single /\ files[1].status = "R" THEN <<"r", "e", "n", "a", "m", "e", " ">> \o name
        ELSE IF Len(a.added) > 0 /\ Len(a.modified) = 0 /\ Len(a.deleted) = 0
             THEN VerbCount(<<"a", "d", "d">>, a.added)
        ELSE IF Len(a.deleted) > 0 /\ Len(a.added) = 0 /\ Len(a.modified) = 0
             THEN VerbCount(<<"r", "e", "m", "o", "v", "e">>, a.deleted)
        ELSE IF Len(a.modified) > 0 /\ Len(a.added) = 0 /\ Len(a.deleted) = 0
             THEN VerbCount(<<"u", "p", "d", "a", "t", "e">>, a.modified)
        ELSE <<"u", "p", "d", "a", "t", "e", " ", "f", "i", "l", "e", "s", " ", "(">> \o Join(changes, <<" ">>) \o <<")">>

generateBody(files, additions, deletions) ==
    IF Len(files) <= 3 THEN Undefined
    ELSE LET Mark(f) == IF f.status = "A" THEN "+"
                        ELSE IF f.status = "D" THEN "-" ELSE "*"
             shown == Slice(files, 0, IF Len(files) < 8 THEN Len(files) ELSE 8)
             lines ==
                 << <<"U+53D8", "U+66F4", "U+6587", "U+4EF6", ":">> >>
                 \o [i \in 1..Len(shown) |->
                        <<Mark(shown[i]), " ">> \o shown[i].path]
                 \o (IF Len(files) > 8
                     THEN << <<".", ".", ".", " ", "U+8FD8", "U+6709", " ">> \o NumText(Len(files) - 8)
                             \o <<" ", "U+4E2A", "U+6587", "U+4EF6">> >>
                     ELSE <<>>)
                 \o << <<>>,
                       <<"U+7EDF", "U+8BA1", ":", " ", "+">> \o NumText(additions)
                       \o <<" ", "-">> \o NumText(deletions) >>
         IN  Join(lines, <<"\n">>)

analyzeDiff(info) ==
    LET stagedFiles == info.stagedFiles
        a == analyzeFiles(stagedFiles)
    IN  [suggestedType |-> determineType(a, stagedFiles),
         suggestedScope |-> determineScope(stagedFiles),
         suggestedSubject |-> generateSubject(a, stagedFiles),
         suggestedBody |->
             generateBody(stagedFiles, info.additions, info.deletions),
         summary |->
             NumText(Len(stagedFiles)) \o <<" ", "U+6587", "U+4EF6", " ", "(", "+">>
             \o NumText(info.additions) \o <<"/", "-">>
             \o NumText(info.deletions) \o <<")">>]

-----------------------------------------------------------------------------
(* Inputs and steps of the analyzer harness                                *)

MaxFiles == 2

StagedPaths ==
    { <<"a", ".", "t", "s">>,
      <<"s", "r", "c", "/", "a", ".", "t", "e", "s", "t", ".", "t", "s">>,
      <<"s", "r", "c", "/", "_", "_", "t", "e", "s", "t", "s", "_", "_", "/", "b", ".", "t", "s">>,
      <<"f", "o", "o", "/", "a", "p", "i", "/", "x", ".", "t", "s">>,
      <<"s", "r", "c", "/", "c", "o", "m", "p", "o", "n", "e", "n", "t", "s", "/", "c", ".", "c", "s", "s">>,
      <<"d", "o", "c", "s", "/", "R", "E", "A", "D", "M", "E", ".", "m", "d">>,
      <<"S", "R", "C", "/", "A", "p", "i", "/", "E", ".", "M", "D">>,
      <<"l", "i", "b", "/", "c", "o", "r", "e", "/", "x", ".", "j", "s", "o", "n">> }

FileStatuses == {"A", "M", "D", "R", "U"}

\* the statuses the analyzer treats like "U": copied and unknown
OtherStatuses == {"C", "?"}

StagedFile ==
    [path : StagedPaths, status : FileStatuses]
    \cup [path : { <<"a", ".", "t", "s">> }, status : OtherStatuses]

DiffInfos ==
    [stagedFiles : {<<>>} \cup ListsUpTo(StagedFile, MaxFiles),
     additions : {12}, deletions : {0}]

\* analysis := analyzeDiff(diffInfo)
Analyze ==
    /\ diffInfo # NoFields
    /\ analysis = NoResult
    /\ analysis' = analyzeDiff(diffInfo)
    /\ UNCHANGED <<diffInfo, parseVars, validateVars, commandVars, aiVars,
                   configVars,
                   wizardVars, remoteVars, serviceVars>>

-----------------------------------------------------------------------------
(* config/rules.ts: ConfigManager.  A setting of the editor and a property *)
(* of the project file are JSON values; the project file is absent,        *)
(* unparseable, or holds a JSON document.  A type description is kept as   *)
(* an opaque text.                                                         *)

ConfigFields ==
    {"types", "typeDescriptions", "subjectMaxLength", "subjectMinLength",
     "scopeRequired", "bodyRequired"}

\* the first of CONFIG_FILE_NAMES that exists in the workspace root
FileAbsent == [file |-> "absent"]
FileUnparseable == [file |-> "unparseable"]
FileWith(value) == [file |-> "json", value |-> value]

\* typeof v === 'object'
TypeofObject(v) ==
    \/ IsKind(v, "null") \/ IsKind(v, "object") \/ IsKind(v, "array")
    \/ IsKind(v, "props") \/ IsKind(v, "items")

\* v is null or undefined, the left side of ?? that gives way
Nullish(v) == IsKind(v, "missing") \/ IsKind(v, "null")

\* Object.entries(v) as a mapping
Entries(v) == IF IsKind(v, "props") THEN v.props ELSE [k \in {} |-> Missing]

\* the value of a well-typed setting as IPluginConfig holds it
PlainValue(v) ==
    IF IsKind(v, "items") THEN [i \in 1..Len(v.items) |-> v.items[i].str]
    ELSE IF IsKind(v, "array") THEN <<>>
    ELSE IF IsKind(v, "num") THEN v.num
    ELSE IF IsKind(v, "bool") THEN v.bool
    ELSE [k \in DOMAIN Entries(v) |-> Entries(v)[k].str]

\* rawConfig.types.filter(t => typeof t === 'string' && t.length > 0)
RECURSIVE FilterTypes(_)
FilterTypes(items) ==
    IF items = <<>> THEN <<>>
    ELSE (IF IsKind(Head(items), "str") /\ Len(Head(items).str) > 0
          THEN <<Head(items)>> ELSE <<>>)
         \o FilterTypes(Tail(items))

validateProjectConfig(cfg) ==
    IF ~JsTruthy(cfg) \/ ~TypeofObject(cfg) THEN Null
    ELSE LET raw(name) == Prop(cfg, name)
             validTypes ==
                 IF IsKind(raw("types"), "items")
                 THEN FilterTypes(raw("types").items) ELSE <<>>
             entries == Entries(raw("typeDescriptions"))
             validKeys == {k \in DOMAIN entries : IsKind(entries[k], "str")}
             result ==
                 [types |->
                     IF Len(validTypes) > 0 THEN JArray(validTypes) ELSE Missing,
                  typeDescriptions |->
                     IF /\ JsTruthy(raw("typeDescriptions"))
                        /\ TypeofObject(raw("typeDescriptions"))
                        /\ validKeys # {}
                     THEN JObject([k \in validKeys |-> entries[k]])
                     ELSE Missing,
                  subjectMaxLength |->
                     IF /\ IsKind(raw("subjectMaxLength"), "num")
                        /\ raw("subjectMaxLength").num > 0
                     THEN raw("subjectMaxLength") ELSE Missing,
                  subjectMinLength |->
                     IF /\ IsKind(raw("subjectMinLength"), "num")
                        /\ raw("subjectMinLength").num >= 0
                     THEN raw("subjectMinLength") ELSE Missing,
                  scopeRequired |->
                     IF IsKind(raw("scopeRequired"), "bool")
                     THEN raw("scopeRequired") ELSE Missing,
                  bodyRequired |->
                     IF IsKind(raw("bodyRequired"), "bool")
                     THEN raw("bodyRequired") ELSE Missing]
         IN  IF \A f \in ConfigFields : result[f] = Missing THEN Null
             ELSE result

\* what readProjectConfig returns, and whether it shows the warning
readProjectConfig(file) ==
    IF file = FileAbsent THEN [config |-> Null, warned |-> FALSE]
    ELSE IF file = FileUnparseable THEN [config |-> Null, warned |-> TRUE]
    ELSE [config |-> validateProjectConfig(file.value), warned |-> FALSE]

getVSCodeConfig(settings) == settings

\* override.x ?? base.x
Coalesce(v, base) == IF Nullish(v) THEN base ELSE PlainValue(v)

\* mergeConfig with the project layer below the layer it is merged into
mergeConfig_BaseWins(base, override) == base

mergeConfig(base, override) ==
    [types |-> Coalesce(override.types, base.types),
     typeDescriptions |->
        IF JsTruthy(override.typeDescriptions)
        THEN LET over == PlainValue(override.typeDescriptions)
             IN  [k \in DOMAIN base.typeDescriptions \cup DOMAIN over |->
                     IF k \in DOMAIN over THEN over[k]
                     ELSE base.typeDescriptions[k]]
        ELSE base.typeDescriptions,
     subjectMaxLength |->
        Coalesce(override.subjectMaxLength, base.subjectMaxLength),
     subjectMinLength |->
        Coalesce(override.subjectMinLength, base.subjectMinLength),
     scopeRequired |-> Coalesce(override.scopeRequired, base.scopeRequired),
     bodyRequired |-> Coalesce(override.bodyRequired, base.bodyRequired)]

\* the config getConfig builds when nothing is cached
BuildConfig(settings, file) ==
    LET vsConfig == getVSCodeConfig(settings)
        merged == mergeConfig(DEFAULT_CONFIG, vsConfig)
        projectConfig == readProjectConfig(file).config
    IN  IF projectConfig # Null THEN mergeConfig(merged, projectConfig)
        ELSE merged

-----------------------------------------------------------------------------
(* Inputs and steps of the config harness                                  *)

\* at most this many settings are set in the editor, and in the project file
MaxSetFields == 2
\* the cache is dropped only while fewer warnings than this were shown
MaxConfigWarnings == 2

SetFields(rec) == {f \in ConfigFields : rec[f] # Missing}

EditorSettings ==
    {e \in [types : {Missing, JEmptyArray,
                     JArray(<< JStr(<<"w", "i", "p">>), JStr(<<"F", "i", "x">>) >>)},
            typeDescriptions :
                {Missing, JObject([k \in {<<"f", "i", "x">>} |-> JStr("editor")])},
            subjectMaxLength : {Missing, JNum(0), JNum(4)},
            subjectMinLength : {Missing, JNum(1)},
            scopeRequired : {Missing, JBool(TRUE)},
            bodyRequired : {Missing, JBool(TRUE), JBool(FALSE)}] :
        Cardinality(SetFields(e)) <= MaxSetFields}

ProjectObjects ==
    {p \in [types : {Missing, JEmptyArray, JStr(<<"f", "i", "x">>),
                     JArray(<< JStr(<<"h", "o", "t">>) >>),
                     JArray(<< JStr(<<"f", "i", "x">>), JNum(1), JStr(<<>>) >>)},
            typeDescriptions :
                {Missing, JStr(<<"f", "i", "x">>),
                 JObject([k \in {<<"f", "i", "x">>} |-> JStr("project")]),
                 JObject([k \in {<<"f", "i", "x">>} |-> JNum(1)]),
                 JObject([k \in {<<"f", "i", "x">>, <<"h", "o", "t">>} |->
                             IF k = <<"h", "o", "t">> THEN JStr("project") ELSE JNull])},
            subjectMaxLength : {Missing, JNum(0), JNum(2), JStr(<<"7", "2">>)},
            subjectMinLength : {Missing, JNum(0), JNum(2), JNum(-1), JBool(TRUE)},
            scopeRequired : {Missing, JBool(TRUE), JBool(FALSE), JStr(<<"y", "e", "s">>)},
            bodyRequired : {Missing, JBool(TRUE), JNum(1)}] :
        Cardinality(SetFields(p)) <= MaxSetFields}

ProjectFiles ==
    {FileAbsent, FileUnparseable}
    \cup {FileWith(v) : v \in {JNull, JNum(5), JEmptyArray}}
    \cup {FileWith(JObject(p)) : p \in ProjectObjects}

\* getConfigManager(): the manager is constructed at its first use, with
\* the first workspace folder of that moment as its root
NoManager == [root |-> "none"]
AtCurrentRoot == [root |-> "current"]
AtFormerRoot(file) == [root |-> "former", file |-> file]

getConfigManager(manager) == IF manager = NoManager THEN AtCurrentRoot ELSE manager

\* the config file in the root of the manager
RootFile(manager, file) ==
    IF manager.root = "former" THEN manager.file ELSE file

\* resolved := getConfigManager().getConfig()
GetConfig ==
    /\ editorSettings # NoFields
    /\ managerRoot' = getConfigManager(managerRoot)
    /\ LET file == RootFile(managerRoot, projectFile)
       IN  IF cachedConfig # Null
           THEN /\ resolved' = cachedConfig
                /\ UNCHANGED <<cachedConfig, notices>>
           ELSE /\ resolved' = BuildConfig(editorSettings, file)
                /\ cachedConfig' = BuildConfig(editorSettings, file)
                /\ notices' =
                      IF readProjectConfig(file).warned
                      THEN Append(notices, "ConfigParseFailed") ELSE notices
    /\ UNCHANGED <<editorSettings, projectFile, command, pc, svcConfig,
                   commitMessage, validation, commits, answers,
                   parseVars, validateVars, aiVars, analyzerVars,
                   wizardVars, remoteVars, serviceVars>>

\* getConfigManager().refreshConfig()
RefreshConfig ==
    /\ editorSettings # NoFields
    /\ cachedConfig # Null
    /\ Len(notices) < MaxConfigWarnings
    /\ cachedConfig' = Null
    /\ UNCHANGED <<editorSettings, projectFile, resolved, managerRoot,
                   parseVars, validateVars, commandVars, aiVars, analyzerVars,
                   wizardVars, remoteVars, serviceVars>>

-----------------------------------------------------------------------------
(* services/validatorService.ts: the config the commands validate with     *)

\* vsConfig.get(x) || DEFAULT_CONFIG.x
OrDefault(v, default) == IF JsTruthy(v) THEN PlainValue(v) ELSE default

loadConfig(settings) ==
    [types |-> OrDefault(settings.types, DEFAULT_CONFIG.types),
     typeDescriptions |->
        OrDefault(settings.typeDescriptions, DEFAULT_CONFIG.typeDescriptions),
     subjectMaxLength |->
        OrDefault(settings.subjectMaxLength, DEFAULT_CONFIG.subjectMaxLength),
     subjectMinLength |->
        OrDefault(settings.subjectMinLength, DEFAULT_CONFIG.subjectMinLength),
     scopeRequired |->
        OrDefault(settings.scopeRequired, DEFAULT_CONFIG.scopeRequired),
     bodyRequired |->
        OrDefault(settings.bodyRequired, DEFAULT_CONFIG.bodyRequired)]

NoSettings ==
    [types |-> Missing, typeDescriptions |-> Missing,
     subjectMaxLength |-> Missing, subjectMinLength |-> Missing,
     scopeRequired |-> Missing, bodyRequired |-> Missing]

\* the editor settings the commands run under
FlowEditorSettings ==
    { NoSettings,
      [NoSettings EXCEPT !.bodyRequired = JBool(TRUE)],
      [NoSettings EXCEPT !.scopeRequired = JBool(TRUE),
                         !.types = JArray(<< JStr(<<"w", "i", "p">>), JStr(<<"F", "i", "x">>) >>)] }

\* the project config file of the workspace the commands run in
FlowProjectFiles ==
    { FileAbsent,
      FileWith(JObject([NoSettings EXCEPT !.scopeRequired = JBool(TRUE)])),
      FileWith(JObject([NoSettings EXCEPT
                           !.types = JArray(<< JStr(<<"w", "i", "p">>) >>),
                           !.subjectMaxLength = JNum(3)])) }

-----------------------------------------------------------------------------
(* extension.ts: what the extension does when the settings, the project    *)
(* config file or the workspace folders change, and the reads of the       *)
(* config between the changes                                              *)

\* a change notifies the user only while fewer notices than this were shown
MaxReloadNotices == 2

ReloadEditorSettings ==
    { NoSettings,
      [NoSettings EXCEPT !.subjectMinLength = JNum(0)],
      [NoSettings EXCEPT !.subjectMaxLength = JNum(2),
                         !.scopeRequired = JBool(TRUE)] }

ReloadProjectFiles ==
    { FileAbsent,
      FileWith(JObject([NoSettings EXCEPT !.scopeRequired = JBool(TRUE)])) }

ReloadMessages ==
    { <<"f", "i", "x", ":", " ", "a", "b">>,
      <<"f", "i", "x", "(", "u", "i", ")", ":", " ", "a", "b", "c">> }

\* getValidatorService(): the config of the instance, made when there is none
getValidatorService(instance, settings) ==
    IF instance = Null THEN loadConfig(settings) ELSE instance

\* getValidatorService().validate(msg), as a command calls it
ServiceValidate ==
    /\ editorSettings # NoFields
    /\ command = "none"
    /\ \E msg \in ReloadMessages :
          LET held == getValidatorService(svcConfig, editorSettings)
          IN  /\ svcConfig' = held
              /\ validation' = [input |-> msg, result |-> validate(msg, held)]
    /\ UNCHANGED <<command, pc, commitMessage, commits, notices, answers,
                   parseVars, validateVars, aiVars, analyzerVars, configVars,
                   wizardVars, remoteVars, serviceVars>>

\* the user edits the gitCommitChecker settings: onDidChangeConfiguration
ChangeSettings ==
    /\ editorSettings # NoFields
    /\ command = "none"
    /\ Len(notices) < MaxReloadNotices
    /\ \E settings \in ReloadEditorSettings \ {editorSettings} :
          /\ editorSettings' = settings
          /\ svcConfig' = loadConfig(settings)
    /\ Show("ConfigUpdated")
    /\ UNCHANGED <<projectFile, cachedConfig, resolved, managerRoot,
                   command, pc, commitMessage, validation, commits, answers,
                   parseVars, validateVars, aiVars, analyzerVars,
                   wizardVars, remoteVars, serviceVars>>

\* the project config file of the first workspace folder is created, changed
\* or deleted: the file watcher of the manager, when it watches this folder
ChangeProjectFile ==
    /\ editorSettings # NoFields
    /\ command = "none"
    /\ Len(notices) < MaxReloadNotices
    /\ \E file \in ReloadProjectFiles \ {projectFile} :
          /\ projectFile' = file
          /\ IF managerRoot = AtCurrentRoot
             THEN /\ cachedConfig' = Null
                  /\ Show(IF projectFile = FileAbsent THEN "ProjectConfigLoaded"
                          ELSE IF file = FileAbsent THEN "ProjectConfigDeleted"
                          ELSE "ProjectConfigReloaded")
             ELSE UNCHANGED <<cachedConfig, notices>>
    /\ UNCHANGED <<editorSettings, resolved, managerRoot,
                   command, pc, svcConfig, commitMessage, validation, commits,
                   answers, parseVars, validateVars, aiVars, analyzerVars,
                   wizardVars, remoteVars, serviceVars>>

\* the workspace folders change: onDidChangeWorkspaceFolders
ChangeWorkspace ==
    /\ editorSettings # NoFields
    /\ command = "none"
    /\ \E file \in ReloadProjectFiles : projectFile' = file
    /\ svcConfig' = Null
    /\ managerRoot' =
          IF managerRoot = AtCurrentRoot THEN AtFormerRoot(projectFile)
          ELSE managerRoot
    /\ UNCHANGED <<editorSettings, cachedConfig, resolved,
                   command, pc, commitMessage, validation, commits, notices,
                   answers, parseVars, validateVars, aiVars, analyzerVars,
                   wizardVars, remoteVars, serviceVars>>

-----------------------------------------------------------------------------
(* ui/quickInput.ts: showCommitInputFlow, the manual wizard.  Every prompt *)
(* (a quick pick or an input box) is a step; an input box only lets        *)
(* through a text its validateInput accepts.                               *)

\* what the user may type into the scope box
ScopeEntries == { <<>>,
                  <<" ">>,
                  <<"u", "i">>,
                  <<"U", "/", "i">>,
                  <<"a", " ", "b">> }

\* what the user may type into the subject box
SubjectEntries == { <<>>,
                    <<"a">>,
                    <<"a", "a", "a">>,
                    <<" ", "a", "d", "d", " ">>,
                    <<"a", "a", "a", ".">>,
                    <<"a", "a", "a", "a", "a">> }

\* what the user may type into the body box
BodyEntries == { <<>>,
                 <<" ">>,
                 <<"x">>,
                 <<"\\", "n">> }

\* what the user may type into the issue box and the breaking change box
IssueEntries == { <<>>,
                  <<"1">>,
                  <<"#", "1">>,
                  <<"s", "e", "e", " ", "1">> }
BreakingEntries == { <<>>,
                     <<"a", "p", "i">> }

\* the configs the wizard is run with
WizardConfigs ==
    { DEFAULT_CONFIG,
      [DEFAULT_CONFIG EXCEPT !.scopeRequired = TRUE],
      [DEFAULT_CONFIG EXCEPT !.bodyRequired = TRUE],
      [DEFAULT_CONFIG EXCEPT !.types = << <<"F", "i", "x">>, <<"w", "i", "p">> >>,
                             !.subjectMaxLength = 4] }

\* inputScope: validateInput of the scope box
ScopeInputAccepted(value, required) ==
    /\ ~(required /\ Trim(value) = <<>>)
    /\ ~(value # <<>>
         /\ ~(\A i \in 1..Len(value) : value[i] \in WordChars \cup {"-", "/", "."}))

\* inputSubject: validateInput of the subject box
SubjectInputAccepted(value, maxLen, minLen) ==
    LET trimmed == Trim(value)
    IN  /\ trimmed # <<>>
        /\ ~(Len(trimmed) < minLen)
        /\ ~(Len(trimmed) > maxLen)
        /\ ~(trimmed[Len(trimmed)] = ".")

\* body.replace(/\\n/g, '\n'): a backslash followed by n becomes a line feed
RECURSIVE ReplaceEscapedNewlines(_)
ReplaceEscapedNewlines(s) ==
    IF Len(s) < 2 THEN s
    ELSE IF s[1] = "\\" /\ s[2] = "n"
         THEN <<"\n">> \o ReplaceEscapedNewlines(SubSeq(s, 3, Len(s)))
         ELSE <<s[1]>> \o ReplaceEscapedNewlines(Tail(s))

\* /^#?\d+$/
IssueNumberPattern(value) ==
    LET digits == IF value # <<>> /\ Head(value) = "#" THEN Tail(value) ELSE value
    IN  digits # <<>> /\ \A i \in 1..Len(digits) : digits[i] \in DigitChars

\* inputFooter: the footer made of the text of the issue box
IssueFooter(issueNumber) ==
    IF issueNumber # Undefined /\ Trim(issueNumber) # <<>>
    THEN LET value == Trim(issueNumber)
         IN  IF IssueNumberPattern(value)
             THEN <<"C", "l", "o", "s", "e", "s", " ">>
                  \o (IF Head(value) = "#" THEN value ELSE <<"#">> \o value)
             ELSE value
    ELSE Undefined

\* inputFooter: the footer made of the text of the breaking change box
BreakingFooter(breakingChange) ==
    IF breakingChange # Undefined /\ Trim(breakingChange) # <<>>
    THEN <<"B", "R", "E", "A", "K", "I", "N", "G", " ", "C", "H", "A", "N", "G",
           "E", ":", " ">> \o Trim(breakingChange)
    ELSE Undefined

\* the wizard at its first prompt
WizardOpened ==
    [step |-> "type", type |-> Undefined, scope |-> Undefined,
     subject |-> Undefined, body |-> Undefined, footer |-> Undefined,
     returns |-> "pending"]

\* `return undefined`
ReturnsUndefined(w) == [w EXCEPT !.step = "returned", !.returns = "undefined"]

\* the end of showCommitInputFlow: the message is built and returned
ReturnsMessage(w, footer) ==
    [w EXCEPT !.step = "returned", !.returns = "message", !.footer = footer]

\* the ICommitMessage showCommitInputFlow returns
WizardMessage(w) ==
    [type |-> w.type, scope |-> OrUndefined(w.scope), subject |-> w.subject,
     body |-> w.body, footer |-> w.footer,
     raw |-> buildCommitMessage(w.type, OrUndefined(w.scope), w.subject,
                                w.body, w.footer)]

WizardFrame ==
    UNCHANGED <<command, pc, svcConfig, commitMessage, validation, commits,
                notices, parseVars, validateVars, aiVars, analyzerVars,
                configVars, remoteVars, serviceVars>>

\* showCommitInputFlow is called: the type picker opens
ShowCommitInputFlow ==
    /\ wizard = NoFields
    /\ wizard' = WizardOpened
    /\ UNCHANGED answers
    /\ WizardFrame

\* step 1: the user picks a type or dismisses the picker
SelectCommitType ==
    /\ wizard # NoFields /\ wizard.step = "type"
    /\ \/ \E i \in 1..Len(svcConfig.types) :
             LET type == svcConfig.types[i]
             IN  /\ Answer("type", "picked")
                 /\ wizard' = IF ~Truthy(type) THEN ReturnsUndefined(wizard)
                              ELSE [wizard EXCEPT !.step = "scope", !.type = type]
       \/ /\ Answer("type", "dismissed")
          /\ wizard' = ReturnsUndefined(wizard)
    /\ WizardFrame

\* step 2: the user enters a scope or dismisses the box
InputScope ==
    /\ wizard # NoFields /\ wizard.step = "scope"
    /\ \E entry \in ScopeEntries \cup {Undefined} :
          LET scope == IF entry = Undefined THEN Undefined
                       ELSE OrUndefined(Trim(entry))
          IN  /\ entry # Undefined
                    => ScopeInputAccepted(entry, svcConfig.scopeRequired)
              /\ Answer("scope", IF entry = Undefined THEN "dismissed" ELSE "entered")
              /\ wizard' = IF scope = Undefined /\ svcConfig.scopeRequired
                           THEN ReturnsUndefined(wizard)
                           ELSE [wizard EXCEPT !.step = "subject", !.scope = scope]
    /\ WizardFrame

\* step 3: the user enters a subject or dismisses the box
InputSubject ==
    /\ wizard # NoFields /\ wizard.step = "subject"
    /\ \E entry \in SubjectEntries \cup {Undefined} :
          LET subject == IF entry = Undefined THEN Undefined ELSE Trim(entry)
          IN  /\ entry # Undefined
                    => SubjectInputAccepted(entry, svcConfig.subjectMaxLength,
                                            svcConfig.subjectMinLength)
              /\ Answer("subject", IF entry = Undefined THEN "dismissed" ELSE "entered")
              /\ wizard' = IF ~Truthy(subject)
                           THEN ReturnsUndefined(wizard)
                           ELSE [wizard EXCEPT !.step = "body", !.subject = subject]
    /\ WizardFrame

\* step 4, the picker: skip the body, add one, or dismiss the picker
InputBody ==
    /\ wizard # NoFields /\ wizard.step = "body"
    /\ \E selected \in {"skip", "add", "dismissed"} :
          /\ Answer("body", selected)
          /\ wizard' = IF selected = "add"
                       THEN [wizard EXCEPT !.step = "bodyText"]
                       ELSE [wizard EXCEPT !.step = "footer", !.body = Undefined]
    /\ WizardFrame

\* step 4, the box: the user enters the body or dismisses the box
InputBodyText ==
    /\ wizard # NoFields /\ wizard.step = "bodyText"
    /\ \E entry \in BodyEntries \cup {Undefined} :
          LET body == IF entry = Undefined \/ Trim(entry) = <<>> THEN Undefined
                      ELSE Trim(ReplaceEscapedNewlines(entry))
          IN  /\ Answer("body", IF entry = Undefined THEN "dismissed" ELSE "entered")
              /\ wizard' = [wizard EXCEPT !.step = "footer", !.body = body]
    /\ WizardFrame

\* step 5, the picker: skip the footer, pick its kind, or dismiss the picker
InputFooter ==
    /\ wizard # NoFields /\ wizard.step = "footer"
    /\ \E selected \in {"skip", "issue", "breaking", "dismissed"} :
          /\ Answer("footer", selected)
          /\ wizard' = IF selected = "issue"
                       THEN [wizard EXCEPT !.step = "footerIssue"]
                       ELSE IF selected = "breaking"
                       THEN [wizard EXCEPT !.step = "footerBreaking"]
                       ELSE ReturnsMessage(wizard, Undefined)
    /\ WizardFrame

\* step 5, the issue box
InputFooterIssue ==
    /\ wizard # NoFields /\ wizard.step = "footerIssue"
    /\ \E entry \in IssueEntries \cup {Undefined} :
          /\ Answer("footer", IF entry = Undefined THEN "dismissed" ELSE "entered")
          /\ wizard' = ReturnsMessage(wizard, IssueFooter(entry))
    /\ WizardFrame

\* step 5, the breaking change box
InputFooterBreaking ==
    /\ wizard # NoFields /\ wizard.step = "footerBreaking"
    /\ \E entry \in BreakingEntries \cup {Undefined} :
          /\ Answer("footer", IF entry = Undefined THEN "dismissed" ELSE "entered")
          /\ wizard' = ReturnsMessage(wizard, BreakingFooter(entry))
    /\ WizardFrame

-----------------------------------------------------------------------------
(* The two implementations side by side: a method of ValidatorService and  *)
(* the function of validator.core of the same name are called with the     *)
(* same arguments, the service holding the config the function is given    *)

\* the messages put together from the fields of the validator harness
BuiltMessages ==
    {buildCommitMessage(inp.type, inp.scope, inp.subject, inp.body, Undefined) :
        inp \in ValidatorInputs}

\* the messages with lines after the first line
TailMessages ==
    {Join(<<h>> \o t, <<"\n">>) :
        h \in TailHeads, t \in ListsUpTo(TailLines, MaxTailLines)}

\* the configs the messages with a tail are validated with
TailConfigs ==
    { DEFAULT_CONFIG,
      [DEFAULT_CONFIG EXCEPT !.scopeRequired = TRUE, !.bodyRequired = TRUE] }

AgreeFrame ==
    UNCHANGED <<call, parseVars, validateVars, commandVars, aiVars,
                analyzerVars, configVars, wizardVars, remoteVars>>

CallParseMessage ==
    /\ call # NoFields /\ call.method = "parseMessage" /\ results = NoResult
    /\ results' = [service |-> parseMessage(call.message),
                   core |-> parseCommitMessage(call.message)]
    /\ AgreeFrame

CallValidate ==
    /\ call # NoFields /\ call.method = "validate" /\ results = NoResult
    /\ results' = [service |-> validate(call.message, svcConfig),
                   core |-> validateCommitMessage(call.message, call.config)]
    /\ AgreeFrame

CallValidateType ==
    /\ call # NoFields /\ call.method = "validateType" /\ results = NoResult
    /\ results' = [service |-> serviceValidateType(call.type, svcConfig),
                   core |-> validateType(call.type, call.config)]
    /\ AgreeFrame

CallValidateSubject ==
    /\ call # NoFields /\ call.method = "validateSubject" /\ results = NoResult
    /\ results' = [service |-> serviceValidateSubject(call.subject, svcConfig),
                   core |-> validateSubject(call.subject, call.config)]
    /\ AgreeFrame

CallBuildCommitMessage ==
    /\ call # NoFields /\ call.method = "buildCommitMessage" /\ results = NoResult
    /\ LET m == call.fields
       IN  results' =
               [service |-> serviceBuildCommitMessage(m.type, m.scope, m.subject,
                                                      m.body, m.footer),
                core |-> buildCommitMessage(m.type, m.scope, m.subject,
                                            m.body, m.footer)]
    /\ AgreeFrame

-----------------------------------------------------------------------------
(* services/aiService.ts: the AIService singleton, its cached config and   *)
(* generateCommitMessage; ui/quickInput.ts: showAIGenerateOption.  Of the  *)
(* gitCommitChecker.ai settings only enabled, apiKey and endpoint are      *)
(* kept.  The remote service answers when and how it likes.                *)

AISettings ==
    [enabled : BOOLEAN,
     apiKey : { <<>>, <<"k">> },
     endpoint : { <<>>, <<"e">> }]

\* getAIConfig: every setting is read as the editor holds it
getAIConfig(settings) ==
    [enabled |-> settings.enabled,
     apiKey |-> settings.apiKey,
     endpoint |-> settings.endpoint]

\* getAIService: the singleton's config; the constructor reads the settings
getAIService(instance, settings) ==
    IF instance = Null THEN getAIConfig(settings) ELSE instance

\* AIService.isEnabled
isEnabled(cfg) == cfg.enabled /\ Truthy(cfg.apiKey)

\* AIService.isConfigured
isConfigured(cfg) == Truthy(cfg.apiKey) /\ Truthy(cfg.endpoint)

\* showAIGenerateOption: the options of the quick pick
AIOptions(isAIAvailable) ==
    IF isAIAvailable THEN <<"ai", "smart", "manual">>
    ELSE <<"smart", "manual", "configure">>

\* what the remote service may send as the body of a 2xx response
ResponseData ==
    { [choices |-> "missing"], [choices |-> "empty content"] }
    \cup {[choices |-> "content", content |-> <<Doc(v)>>] : v \in SampleValues}

\* generateCommitMessage, after `await response.json()`
OutcomeOf(data) ==
    IF data.choices = "missing" THEN "InvalidFormat"
    ELSE IF data.choices = "empty content" THEN "EmptyResponse"
    ELSE IF "thrown" \in DOMAIN parseAIResponse(data.content) THEN "ParseFailed"
    ELSE "resolved"

\* a call of generateCommitMessage that has resolved or rejected
Settled(outcome, timer, elapsed) ==
    [stage |-> "settled", ok |-> FALSE, timer |-> timer, elapsed |-> elapsed,
     outcome |-> outcome]

InFlight == request # NoFields /\ request.stage # "settled"

RemoteFrame ==
    UNCHANGED <<command, pc, svcConfig, commitMessage, validation, commits,
                answers, parseVars, validateVars, aiVars, analyzerVars,
                configVars, wizardVars, serviceVars>>

\* showAIGenerateOption: the quick pick is built and shown
ShowAIGenerateOption ==
    /\ aiSettings # NoFields
    /\ aiServiceInstance' = getAIService(aiServiceInstance, aiSettings)
    /\ offered' = AIOptions(isEnabled(getAIService(aiServiceInstance, aiSettings)))
    /\ UNCHANGED <<aiSettings, request, notices>>
    /\ RemoteFrame

\* the user changes a gitCommitChecker.ai setting: onDidChangeConfiguration
\* of extension.ts refreshes the validator service and shows a notice
ChangeAISettings ==
    /\ aiSettings # NoFields
    /\ Len(notices) < MaxReloadNotices
    /\ \E settings \in AISettings \ {aiSettings} : aiSettings' = settings
    /\ Show("ConfigUpdated")
    /\ UNCHANGED <<aiServiceInstance, offered, request>>
    /\ RemoteFrame

\* showAICommitInputFlow calls generateCommitMessage: the config is refreshed,
\* and when it is complete the request is sent and the timer is set
GenerateCommitMessage ==
    /\ aiSettings # NoFields
    /\ offered # NoResult /\ Includes(offered, "ai")
    /\ ~InFlight
    /\ aiServiceInstance' = getAIConfig(aiSettings)
    /\ request' = IF ~isConfigured(getAIConfig(aiSettings))
                  THEN Settled("NotConfigured", "none", FALSE)
                  ELSE [stage |-> "fetch", ok |-> FALSE, timer |-> "armed",
                        elapsed |-> FALSE, outcome |-> "pending"]
    /\ UNCHANGED <<aiSettings, offered, notices>>
    /\ RemoteFrame

\* the response headers arrive: fetch resolves and clearTimeout is called
ResponseHeaders ==
    /\ InFlight /\ request.stage = "fetch"
    /\ \E ok \in BOOLEAN :
          request' = [request EXCEPT !.stage = "body", !.ok = ok,
                                     !.timer = "cleared"]
    /\ UNCHANGED <<aiSettings, aiServiceInstance, offered, notices>>
    /\ RemoteFrame

\* the request fails before the headers: fetch rejects
FetchRejects ==
    /\ InFlight /\ request.stage = "fetch"
    /\ request' = Settled("RequestFailed", "cleared", request.elapsed)
    /\ UNCHANGED <<aiSettings, aiServiceInstance, offered, notices>>
    /\ RemoteFrame

\* the response body arrives: response.text() or response.json() resolves
ResponseBody ==
    /\ InFlight /\ request.stage = "body"
    /\ \E data \in ResponseData :
          request' = Settled(IF ~request.ok THEN "ApiFailed" ELSE OutcomeOf(data),
                             "cleared", request.elapsed)
    /\ UNCHANGED <<aiSettings, aiServiceInstance, offered, notices>>
    /\ RemoteFrame

\* the configured timeout has passed since the request was sent: a timer that
\* is still set fires and aborts the fetch, which rejects with AbortError
TimeoutElapses ==
    /\ InFlight /\ ~request.elapsed
    /\ request' = IF request.timer = "armed"
                  THEN Settled("Timeout", "fired", TRUE)
                  ELSE [request EXCEPT !.elapsed = TRUE]
    /\ UNCHANGED <<aiSettings, aiServiceInstance, offered, notices>>
    /\ RemoteFrame

-----------------------------------------------------------------------------
(* Specifications                                                          *)

\* the parser harness starts; the validators and the commands are not in use
InitParse ==
    /\ \/ /\ origin = "fields"
          /\ fields \in StructuredMessages
          /\ text = Undefined
          /\ ppc = "build"
       \/ /\ origin = "raw"
          /\ fields = NoFields
          /\ text \in RawTexts
          /\ ppc = "parse"
    /\ parsed = NoResult
    /\ message = Undefined /\ ftype = Undefined /\ fsubject = Undefined
    /\ config = DEFAULT_CONFIG
    /\ vresult = NoResult /\ tresult = NoResult /\ sresult = NoResult
    /\ command = "none" /\ pc = "idle" /\ svcConfig = DEFAULT_CONFIG
    /\ commitMessage = Undefined /\ validation = NoResult
    /\ commits = <<>> /\ notices = <<>> /\ answers = <<>>
    /\ diffContent = Undefined /\ maxLength = 0 /\ truncated = Undefined
    /\ content = NoContent /\ aiResult = NoResult
    /\ diffInfo = NoFields /\ analysis = NoResult
    /\ wizard = NoFields
    /\ aiSettings = NoFields /\ aiServiceInstance = Null
    /\ offered = NoResult /\ request = NoFields
    /\ call = NoFields /\ results = NoResult
    /\ editorSettings = NoFields /\ projectFile = NoFields
    /\ cachedConfig = Null /\ resolved = NoResult
    /\ managerRoot = NoManager

ParseNext == Build \/ Parse

SpecParse == InitParse /\ [][ParseNext]_vars

\* the validator harness starts; the parser harness and the commands are not
\* in use
InitValidate ==
    /\ config \in Configs
    /\ \/ \E inp \in ValidatorInputs :
            /\ message = buildCommitMessage(inp.type, inp.scope, inp.subject,
                                            inp.body, Undefined)
            /\ ftype = inp.type
            /\ fsubject = inp.subject
       \/ /\ message \in OtherMessages
          /\ ftype = <<>>
          /\ fsubject = <<>>
    /\ vresult = NoResult /\ tresult = NoResult /\ sresult = NoResult
    /\ origin = "none" /\ fields = NoFields /\ text = Undefined
    /\ parsed = NoResult /\ ppc = "idle"
    /\ command = "none" /\ pc = "idle" /\ svcConfig = DEFAULT_CONFIG
    /\ commitMessage = Undefined /\ validation = NoResult
    /\ commits = <<>> /\ notices = <<>> /\ answers = <<>>
    /\ diffContent = Undefined /\ maxLength = 0 /\ truncated = Undefined
    /\ content = NoContent /\ aiResult = NoResult
    /\ diffInfo = NoFields /\ analysis = NoResult
    /\ wizard = NoFields
    /\ aiSettings = NoFields /\ aiServiceInstance = Null
    /\ offered = NoResult /\ request = NoFields
    /\ call = NoFields /\ results = NoResult
    /\ editorSettings = NoFields /\ projectFile = NoFields
    /\ cachedConfig = Null /\ resolved = NoResult
    /\ managerRoot = NoManager

ValidateNext == ValidateType \/ ValidateSubject \/ ValidateMessage

SpecValidate == InitValidate /\ [][ValidateNext]_vars

\* a command starts; the harnesses are not in use
InitCommit ==
    /\ command \in {"commit", "quick"}
    /\ pc = "start"
    /\ editorSettings \in FlowEditorSettings
    /\ projectFile \in FlowProjectFiles
    /\ svcConfig = loadConfig(editorSettings)
    /\ commitMessage = Undefined /\ validation = NoResult
    /\ commits = <<>> /\ notices = <<>> /\ answers = <<>>
    /\ diffContent = Undefined /\ maxLength = 0 /\ truncated = Undefined
    /\ content = NoContent /\ aiResult = NoResult
    /\ diffInfo = NoFields /\ analysis = NoResult
    /\ wizard = NoFields
    /\ aiSettings = NoFields /\ aiServiceInstance = Null
    /\ offered = NoResult /\ request = NoFields
    /\ call = NoFields /\ results = NoResult
    /\ cachedConfig = Null /\ resolved = NoResult
    /\ managerRoot = NoManager
    /\ origin = "none" /\ fields = NoFields /\ text = Undefined
    /\ parsed = NoResult /\ ppc = "idle"
    /\ message = Undefined /\ ftype = Undefined /\ fsubject = Undefined
    /\ config = DEFAULT_CONFIG
    /\ vresult = NoResult /\ tresult = NoResult /\ sresult = NoResult

CommitNext ==
    \/ CheckRepository \/ CheckStaged \/ DiffPreview \/ ChooseMethod
    \/ FlowReturns \/ FlowCancelled \/ AIFailed
    \/ ValidateStep \/ WarningPrompt \/ Confirmation \/ GitCommit

SpecCommit == InitCommit /\ [][CommitNext]_vars

\* the AI helper harness starts with a diff to truncate or a response to parse
InitAI ==
    /\ \/ /\ diffContent \in DiffTexts /\ maxLength \in MaxLengths
          /\ content = NoContent
       \/ /\ diffContent = Undefined /\ maxLength = 0
          /\ content \in Responses
    /\ truncated = Undefined /\ aiResult = NoResult
    /\ origin = "none" /\ fields = NoFields /\ text = Undefined
    /\ parsed = NoResult /\ ppc = "idle"
    /\ message = Undefined /\ ftype = Undefined /\ fsubject = Undefined
    /\ config = DEFAULT_CONFIG
    /\ vresult = NoResult /\ tresult = NoResult /\ sresult = NoResult
    /\ command = "none" /\ pc = "idle" /\ svcConfig = DEFAULT_CONFIG
    /\ commitMessage = Undefined /\ validation = NoResult
    /\ commits = <<>> /\ notices = <<>> /\ answers = <<>>
    /\ diffInfo = NoFields /\ analysis = NoResult
    /\ wizard = NoFields
    /\ aiSettings = NoFields /\ aiServiceInstance = Null
    /\ offered = NoResult /\ request = NoFields
    /\ call = NoFields /\ results = NoResult
    /\ editorSettings = NoFields /\ projectFile = NoFields
    /\ cachedConfig = Null /\ resolved = NoResult
    /\ managerRoot = NoManager

AINext == Truncate \/ ParseResponse

SpecAI == InitAI /\ [][AINext]_vars

\* the analyzer harness starts with the staged files of a diff
InitAnalyze ==
    /\ diffInfo \in DiffInfos
    /\ analysis = NoResult
    /\ origin = "none" /\ fields = NoFields /\ text = Undefined
    /\ parsed = NoResult /\ ppc = "idle"
    /\ message = Undefined /\ ftype = Undefined /\ fsubject = Undefined
    /\ config = DEFAULT_CONFIG
    /\ vresult = NoResult /\ tresult = NoResult /\ sresult = NoResult
    /\ command = "none" /\ pc = "idle" /\ svcConfig = DEFAULT_CONFIG
    /\ commitMessage = Undefined /\ validation = NoResult
    /\ commits = <<>> /\ notices = <<>> /\ answers = <<>>
    /\ diffContent = Undefined /\ maxLength = 0 /\ truncated = Undefined
    /\ content = NoContent /\ aiResult = NoResult
    /\ editorSettings = NoFields /\ projectFile = NoFields
    /\ cachedConfig = Null /\ resolved = NoResult
    /\ managerRoot = NoManager
    /\ wizard = NoFields
    /\ aiSettings = NoFields /\ aiServiceInstance = Null
    /\ offered = NoResult /\ request = NoFields
    /\ call = NoFields /\ results = NoResult

AnalyzeNext == Analyze

SpecAnalyze == InitAnalyze /\ [][AnalyzeNext]_vars

\* the config manager is constructed: nothing is cached yet
InitConfig ==
    /\ editorSettings \in EditorSettings
    /\ projectFile \in ProjectFiles
    /\ cachedConfig = Null /\ resolved = NoResult
    /\ managerRoot = NoManager
    /\ origin = "none" /\ fields = NoFields /\ text = Undefined
    /\ parsed = NoResult /\ ppc = "idle"
    /\ message = Undefined /\ ftype = Undefined /\ fsubject = Undefined
    /\ config = DEFAULT_CONFIG
    /\ vresult = NoResult /\ tresult = NoResult /\ sresult = NoResult
    /\ command = "none" /\ pc = "idle" /\ svcConfig = DEFAULT_CONFIG
    /\ commitMessage = Undefined /\ validation = NoResult
    /\ commits = <<>> /\ notices = <<>> /\ answers = <<>>
    /\ diffContent = Undefined /\ maxLength = 0 /\ truncated = Undefined
    /\ content = NoContent /\ aiResult = NoResult
    /\ diffInfo = NoFields /\ analysis = NoResult
    /\ wizard = NoFields
    /\ aiSettings = NoFields /\ aiServiceInstance = Null
    /\ offered = NoResult /\ request = NoFields
    /\ call = NoFields /\ results = NoResult

ConfigNext == GetConfig \/ RefreshConfig

SpecConfig == InitConfig /\ [][ConfigNext]_vars

\* the extension is active; no service exists yet
InitReload ==
    /\ editorSettings \in ReloadEditorSettings
    /\ projectFile \in ReloadProjectFiles
    /\ cachedConfig = Null /\ resolved = NoResult
    /\ managerRoot = NoManager
    /\ svcConfig = Null
    /\ origin = "none" /\ fields = NoFields /\ text = Undefined
    /\ parsed = NoResult /\ ppc = "idle"
    /\ message = Undefined /\ ftype = Undefined /\ fsubject = Undefined
    /\ config = DEFAULT_CONFIG
    /\ vresult = NoResult /\ tresult = NoResult /\ sresult = NoResult
    /\ command = "none" /\ pc = "idle"
    /\ commitMessage = Undefined /\ validation = NoResult
    /\ commits = <<>> /\ notices = <<>> /\ answers = <<>>
    /\ diffContent = Undefined /\ maxLength = 0 /\ truncated = Undefined
    /\ content = NoContent /\ aiResult = NoResult
    /\ diffInfo = NoFields /\ analysis = NoResult
    /\ wizard = NoFields
    /\ aiSettings = NoFields /\ aiServiceInstance = Null
    /\ offered = NoResult /\ request = NoFields
    /\ call = NoFields /\ results = NoResult

ReloadNext ==
    \/ GetConfig \/ RefreshConfig \/ ServiceValidate
    \/ ChangeSettings \/ ChangeProjectFile \/ ChangeWorkspace

SpecReload == InitReload /\ [][ReloadNext]_vars

\* the extension is active and the validator service holds its config
InitWizard ==
    /\ svcConfig \in WizardConfigs
    /\ wizard = NoFields
    /\ origin = "none" /\ fields = NoFields /\ text = Undefined
    /\ parsed = NoResult /\ ppc = "idle"
    /\ message = Undefined /\ ftype = Undefined /\ fsubject = Undefined
    /\ config = DEFAULT_CONFIG
    /\ vresult = NoResult /\ tresult = NoResult /\ sresult = NoResult
    /\ command = "none" /\ pc = "idle"
    /\ commitMessage = Undefined /\ validation = NoResult
    /\ commits = <<>> /\ notices = <<>> /\ answers = <<>>
    /\ diffContent = Undefined /\ maxLength = 0 /\ truncated = Undefined
    /\ content = NoContent /\ aiResult = NoResult
    /\ diffInfo = NoFields /\ analysis = NoResult
    /\ editorSettings = NoFields /\ projectFile = NoFields
    /\ cachedConfig = Null /\ resolved = NoResult
    /\ managerRoot = NoManager
    /\ aiSettings = NoFields /\ aiServiceInstance = Null
    /\ offered = NoResult /\ request = NoFields
    /\ call = NoFields /\ results = NoResult

WizardNext ==
    \/ ShowCommitInputFlow \/ SelectCommitType \/ InputScope \/ InputSubject
    \/ InputBody \/ InputBodyText
    \/ InputFooter \/ InputFooterIssue \/ InputFooterBreaking

SpecWizard == InitWizard /\ [][WizardNext]_vars

\* a validator service exists and holds the config of the call
InitAgree ==
    /\ \/ \E m \in RawTexts :
             call = [method |-> "parseMessage", message |-> m,
                     config |-> DEFAULT_CONFIG]
       \/ \E m \in BuiltMessages \cup OtherMessages, c \in Configs :
             call = [method |-> "validate", message |-> m, config |-> c]
       \/ \E m \in TailMessages, c \in TailConfigs :
             call = [method |-> "validate", message |-> m, config |-> c]
       \/ \E t \in InputTypes \cup {<<>>}, c \in Configs :
             call = [method |-> "validateType", type |-> t, config |-> c]
       \/ \E sj \in InputSubjects \cup { <<" ">> }, c \in Configs :
             call = [method |-> "validateSubject", subject |-> sj, config |-> c]
       \/ \E m \in StructuredMessages :
             call = [method |-> "buildCommitMessage", fields |-> m,
                     config |-> DEFAULT_CONFIG]
    /\ svcConfig = call.config
    /\ results = NoResult
    /\ origin = "none" /\ fields = NoFields /\ text = Undefined
    /\ parsed = NoResult /\ ppc = "idle"
    /\ message = Undefined /\ ftype = Undefined /\ fsubject = Undefined
    /\ config = DEFAULT_CONFIG
    /\ vresult = NoResult /\ tresult = NoResult /\ sresult = NoResult
    /\ command = "none" /\ pc = "idle"
    /\ commitMessage = Undefined /\ validation = NoResult
    /\ commits = <<>> /\ notices = <<>> /\ answers = <<>>
    /\ diffContent = Undefined /\ maxLength = 0 /\ truncated = Undefined
    /\ content = NoContent /\ aiResult = NoResult
    /\ diffInfo = NoFields /\ analysis = NoResult
    /\ editorSettings = NoFields /\ projectFile = NoFields
    /\ cachedConfig = Null /\ resolved = NoResult
    /\ managerRoot = NoManager
    /\ wizard = NoFields
    /\ aiSettings = NoFields /\ aiServiceInstance = Null
    /\ offered = NoResult /\ request = NoFields

AgreeNext ==
    \/ CallParseMessage \/ CallValidate \/ CallValidateType
    \/ CallValidateSubject \/ CallBuildCommitMessage

SpecAgree == InitAgree /\ [][AgreeNext]_vars

\* the extension is active; no AI service exists yet
InitRemote ==
    /\ aiSettings \in AISettings
    /\ aiServiceInstance = Null
    /\ offered = NoResult /\ request = NoFields
    /\ origin = "none" /\ fields = NoFields /\ text = Undefined
    /\ parsed = NoResult /\ ppc = "idle"
    /\ message = Undefined /\ ftype = Undefined /\ fsubject = Undefined
    /\ config = DEFAULT_CONFIG
    /\ vresult = NoResult /\ tresult = NoResult /\ sresult = NoResult
    /\ command = "none" /\ pc = "idle" /\ svcConfig = DEFAULT_CONFIG
    /\ commitMessage = Undefined /\ validation = NoResult
    /\ commits = <<>> /\ notices = <<>> /\ answers = <<>>
    /\ diffContent = Undefined /\ maxLength = 0 /\ truncated = Undefined
    /\ content = NoContent /\ aiResult = NoResult
    /\ diffInfo = NoFields /\ analysis = NoResult
    /\ editorSettings = NoFields /\ projectFile = NoFields
    /\ cachedConfig = Null /\ resolved = NoResult
    /\ managerRoot = NoManager
    /\ wizard = NoFields
    /\ call = NoFields /\ results = NoResult

RemoteNext ==
    \/ ShowAIGenerateOption \/ ChangeAISettings \/ GenerateCommitMessage
    \/ ResponseHeaders \/ FetchRejects \/ ResponseBody \/ TimeoutElapses

SpecRemote == InitRemote /\ [][RemoteNext]_vars

\* time passes: the moment the timeout was set for is reached, whatever the
\* remote service does
SpecRemoteFair == SpecRemote /\ WF_vars(TimeoutElapses)

-----------------------------------------------------------------------------
(* Claims about the parser and the builder                                 *)

\* the footer markers as the specification lists them
Markers ==
    { <<"B", "R", "E", "A", "K", "I", "N", "G", " ", "C", "H", "A", "N", "G", "E", ":">>,
      <<"C", "l", "o", "s", "e", "s">>,
      <<"F", "i", "x", "e", "s">>,
      <<"R", "e", "f", "s">>,
      <<"I", "s", "s", "u", "e">> }

StartsWithMarker(s) == \E k \in Markers : StartsWith(Trim(s), k)

\* no line of the field starts with a footer marker
FieldMarkerFree(f) ==
    f = Undefined
    \/ LET ls == Split(f, "\n") IN \A i \in 1..Len(ls) : ~StartsWithMarker(ls[i])

MarkerFree(m) ==
    /\ FieldMarkerFree(m.type) /\ FieldMarkerFree(m.scope)
    /\ FieldMarkerFree(m.subject)
    /\ FieldMarkerFree(m.body) /\ FieldMarkerFree(m.footer)

\* a structured message of the data model: a type of word characters, a scope
\* that fits between the parentheses, a one-line subject, and texts without
\* surrounding white space
OptionalText(f) == f = Undefined \/ (f # <<>> /\ Trim(f) = f)

WellFormed(m) ==
    /\ m.type # <<>> /\ \A i \in 1..Len(m.type) : m.type[i] \in WordChars
    /\ \/ m.scope = Undefined
       \/ /\ m.scope # <<>>
          /\ \A i \in 1..Len(m.scope) : m.scope[i] \notin {")", "\n", "\r"}
    /\ m.subject # <<>> /\ Trim(m.subject) = m.subject
    /\ \A i \in 1..Len(m.subject) : m.subject[i] \notin LineTerminators
    /\ OptionalText(m.body) /\ OptionalText(m.footer)

Built == origin = "fields" /\ ppc = "done"

SameHeader(p, m) ==
    p # Null /\ p.type = m.type /\ p.scope = m.scope /\ p.subject = m.subject

\* C5 as stated: a built message free of the footer markers parses back to the
\* same type, scope, subject, body and footer, a present footer included
C5_RoundTripWithFooter ==
    (Built /\ WellFormed(fields) /\ MarkerFree(fields))
        => /\ SameHeader(parsed, fields)
           /\ parsed.body = fields.body
           /\ parsed.footer = fields.footer

\* C5 amended: the header always comes back; body and footer come back when
\* the footer is absent; a present marker-free footer comes back as the end
\* of the body, a blank line after the given body, and no footer is returned
C5_RoundTripAmended ==
    (Built /\ WellFormed(fields) /\ MarkerFree(fields))
        => /\ SameHeader(parsed, fields)
           /\ fields.footer = Undefined
                => parsed.body = fields.body /\ parsed.footer = Undefined
           /\ fields.footer # Undefined
                => /\ parsed.footer = Undefined
                   /\ parsed.body =
                        IF fields.body = Undefined THEN fields.footer
                        ELSE fields.body \o <<"\n", "\n">> \o fields.footer

\* a built, well-formed, marker-free message with a body and a footer was parsed
C5_Witness ==
    /\ Built /\ WellFormed(fields) /\ MarkerFree(fields)
    /\ fields.body # Undefined /\ fields.footer # Undefined
    /\ fields.scope # Undefined

\* C6: a raw text that parses, rebuilt from its parsed fields and parsed
\* again, yields the same type, scope, subject, body and footer
C6_RoundTripStable ==
    (origin = "raw" /\ ppc = "done")
        => /\ SameHeader(parsed, fields)
           /\ parsed.body = fields.body
           /\ parsed.footer = fields.footer

\* a raw text with a scope, a body and a footer went through the round trip,
\* and the rebuilt text differs from the raw text
C6_Witness ==
    /\ origin = "raw" /\ ppc = "done"
    /\ fields.scope # Undefined /\ fields.body # Undefined
    /\ fields.footer # Undefined
    /\ parsed.raw # Trim(parsed.raw) \/ Len(Split(parsed.raw, "\n")) > 5

\* the first line the parser looks at
FirstLine(raw) == Trim(Split(Trim(raw), "\n")[1])

\* line = type [ "(" scope ")" ] ": " rest, with i the end of the type and j
\* the end of the optional scope group
ConformsAt(line, i, j) ==
    /\ \A k \in 1..i : line[k] \in WordChars
    /\ \/ j = i
       \/ /\ j >= i + 3
          /\ line[i + 1] = "(" /\ line[j] = ")"
          /\ \A k \in (i + 2)..(j - 1) : line[k] # ")"
    /\ j + 2 <= Len(line)
    /\ line[j + 1] = ":" /\ line[j + 2] = " "
    /\ Trim(SubSeq(line, j + 3, Len(line))) # <<>>

Conforms(line) ==
    \E i \in 1..Len(line) : \E j \in i..Len(line) : ConformsAt(line, i, j)

FirstParse == origin = "raw" /\ ppc = "parsed"

\* C7 as stated: the parser returns a message exactly when the first line is
\* type[(scope)]: subject with the space after the colon, and the subject is
\* the trimmed rest of the line
C7_ParsesExactlyGrammar ==
    FirstParse
        => /\ parsed # Null <=> Conforms(FirstLine(text))
           /\ parsed # Null
                => \E i \in 1..Len(FirstLine(text)) : \E j \in i..Len(FirstLine(text)) :
                      /\ ConformsAt(FirstLine(text), i, j)
                      /\ parsed.type = SubSeq(FirstLine(text), 1, i)
                      /\ parsed.subject =
                            Trim(SubSeq(FirstLine(text), j + 3, Len(FirstLine(text))))

\* C8: body and footer as the split at the first marker line
ClaimedSplit(raw) ==
    LET lines     == Split(Trim(raw), "\n")
        Between(a, b) == Trim(Join(SubSeq(lines, a, b), <<"\n">>))
        nonBlank  == {i \in 2..Len(lines) : Trim(lines[i]) # <<>>}
    IN  IF nonBlank = {} THEN [body |-> Undefined, footer |-> Undefined]
        ELSE
        LET bodyStart == CHOOSE i \in nonBlank : \A j \in nonBlank : i <= j
            markers   == {i \in bodyStart..Len(lines) : StartsWithMarker(lines[i])}
        IN  IF markers = {} \/ bodyStart \in markers
            THEN [body |-> Between(bodyStart, Len(lines)), footer |-> Undefined]
            ELSE LET first == CHOOSE i \in markers : \A j \in markers : i <= j
                 IN  [body |-> Between(bodyStart, first - 1),
                      footer |-> Between(first, Len(lines))]

C8_SplitAtFirstMarker ==
    (FirstParse /\ parsed # Null)
        => /\ parsed.body = ClaimedSplit(text).body
           /\ parsed.footer = ClaimedSplit(text).footer

\* a text with two marker lines after its body was parsed
C8_Witness ==
    /\ FirstParse /\ parsed # Null
    /\ parsed.body # Undefined /\ parsed.footer # Undefined
    /\ LET ls == Split(parsed.footer, "\n")
       IN  Len(ls) >= 2 /\ StartsWithMarker(ls[Len(ls)])

\* a field is present when it is given and not empty
Present(f) == f # Undefined /\ f # <<>>

\* the text the builder is to return for the fields m
ClaimedText(m) ==
    m.type
    \o (IF Present(m.scope) THEN <<"(">> \o m.scope \o <<")">> ELSE <<>>)
    \o <<":", " ">> \o m.subject
    \o (IF Present(m.body) THEN <<"\n", "\n">> \o m.body ELSE <<>>)
    \o (IF Present(m.footer) THEN <<"\n", "\n">> \o m.footer ELSE <<>>)

\* C12: the built text is the type, "(scope)" only for a present scope, ": "
\* and the subject, a blank line and the body only for a present body, a blank
\* line and the footer only for a present footer; fields of any content are
\* concatenated as they are
C12_BuildConcatenates ==
    (fields # NoFields /\ text # Undefined) => text = ClaimedText(fields)

\* a message with a scope that holds ")", a subject with a leading blank, a
\* body and a footer was built
C12_Witness ==
    /\ origin = "fields" /\ text # Undefined
    /\ fields.scope = <<"a", ")">> /\ fields.subject = <<" ", "c">>
    /\ Present(fields.body) /\ Present(fields.footer)

\* the parser has just parsed `text`
JustParsed == ppc \in {"parsed", "done"} /\ parsed # NoResult

\* the lines after the first line, from the first non-blank one on, when that
\* line starts with a footer marker; <<>> otherwise
FooterOnlyTail(raw) ==
    LET lines    == Split(Trim(raw), "\n")
        nonBlank == {i \in 2..Len(lines) : Trim(lines[i]) # <<>>}
    IN  IF nonBlank = {} THEN <<>>
        ELSE LET first == CHOOSE i \in nonBlank : \A j \in nonBlank : i <= j
             IN  IF StartsWithMarker(lines[first])
                 THEN SubSeq(lines, first, Len(lines))
                 ELSE <<>>

\* C26: a parse result that has a footer also has a body; when the first
\* non-blank line after the first line starts with a footer marker, the lines
\* from it on are the body and the footer is absent
C26_FooterHasBody ==
    (JustParsed /\ parsed # Null)
        => /\ parsed.footer # Undefined => parsed.body # Undefined
           /\ FooterOnlyTail(text) # <<>>
                 => /\ parsed.footer = Undefined
                    /\ parsed.body = Trim(Join(FooterOnlyTail(text), <<"\n">>))

\* a header followed by a blank line and two footer lines was parsed
C26_Witness ==
    /\ JustParsed /\ parsed # Null
    /\ Len(FooterOnlyTail(text)) >= 2
    /\ Trim(Split(Trim(text), "\n")[2]) = <<>>
    /\ StartsWithMarker(FooterOnlyTail(text)[Len(FooterOnlyTail(text))])

-----------------------------------------------------------------------------
(* Claims about the validators                                             *)

Consistent(r) == r # NoResult => (r.isValid <=> r.errors = <<>>)

\* C1: every result of validateCommitMessage, validateType and validateSubject
\* has isValid = true exactly when its errors list is empty, with or without
\* warnings
C1_ValidIffNoErrors ==
    Consistent(vresult) /\ Consistent(tresult) /\ Consistent(sresult)

\* all three validators have answered, and the message is valid with a warning
C1_Witness ==
    /\ vresult # NoResult /\ vresult.isValid /\ vresult.warnings # <<>>
    /\ sresult # NoResult /\ sresult.errors = <<>>
    /\ tresult # NoResult /\ tresult.errors = <<>>

\* C3: an empty or white-space-only message, and a message the parser does
\* not accept, get isValid = false, the one error of that case and no warning,
\* whatever the config requires
C3_ShortCircuit ==
    vresult # NoResult
        => /\ (message = <<>> \/ Trim(message) = <<>>)
                => vresult = [isValid |-> FALSE, errors |-> <<"EmptyMessage">>,
                              warnings |-> <<>>]
           /\ (Trim(message) # <<>> /\ parseCommitMessage(message) = Null)
                => vresult = [isValid |-> FALSE, errors |-> <<"BadFormat">>,
                              warnings |-> <<>>]

\* a white-space-only message was rejected under a config that requires a
\* scope and a body
C3_Witness ==
    /\ vresult # NoResult
    /\ message # <<>> /\ Trim(message) = <<>>
    /\ config.scopeRequired /\ config.bodyRequired
    /\ Len(vresult.errors) = 1

\* the rules of the claim, each with the name of its error, in check order
ClaimedErrors(p, cfg) ==
    LET Rule(failed, name) == IF failed THEN <<name>> ELSE <<>>
        lower(t)   == t # <<>> /\ \A i \in 1..Len(t) : t[i] \in LowerChars
        scopeOk(t) == \A i \in 1..Len(t) : t[i] \in WordChars \cup {"-", "/", "."}
    IN  Rule(\A i \in 1..Len(cfg.types) : cfg.types[i] # p.type, "InvalidType")
        \o Rule(~lower(p.type), "TypeNotLowercase")
        \o Rule(p.scope = Undefined /\ cfg.scopeRequired, "ScopeRequired")
        \o Rule(p.scope # Undefined /\ ~scopeOk(p.scope), "ScopeFormat")
        \o Rule(Len(p.subject) > cfg.subjectMaxLength, "SubjectTooLong")
        \o Rule(Len(p.subject) < cfg.subjectMinLength, "SubjectTooShort")
        \o Rule(p.body = Undefined /\ cfg.bodyRequired, "BodyRequired")

\* C4: for a message that parses, errors holds one entry per failing rule,
\* all of them, in check order; a subject of length exactly subjectMaxLength
\* or subjectMinLength gets no length error
C4_AllFailingRules ==
    (vresult # NoResult /\ parseCommitMessage(message) # Null)
        => vresult.errors = ClaimedErrors(parseCommitMessage(message), config)

\* a message failed four rules at once (both type rules, the scope format and
\* the required body) and none for its subject, whose length is exactly
\* subjectMaxLength and subjectMinLength
C4_Witness ==
    /\ vresult # NoResult /\ parseCommitMessage(message) # Null
    /\ Len(vresult.errors) = 4
    /\ Len(parseCommitMessage(message).subject) = config.subjectMaxLength
    /\ Len(parseCommitMessage(message).subject) = config.subjectMinLength

\* C11: for a message that parses, warnings holds the one trailing-period
\* advisory when the parsed subject ends with ".", and nothing otherwise; a
\* message that fails no rule is valid with it
C11_PeriodWarningOnly ==
    (vresult # NoResult /\ parseCommitMessage(message) # Null)
        => LET p == parseCommitMessage(message)
           IN  /\ vresult.warnings =
                     IF p.subject[Len(p.subject)] = "."
                     THEN <<"SubjectEndsWithPeriod">> ELSE <<>>
               /\ ClaimedErrors(p, config) = <<>> => vresult.isValid

\* a message whose only finding is the trailing period was judged valid, with
\* the one warning
C11_Witness ==
    /\ vresult # NoResult /\ parseCommitMessage(message) # Null
    /\ parseCommitMessage(message).subject = <<"a", ".">>
    /\ vresult.isValid /\ Len(vresult.warnings) = 1

Has(r, name) == \E i \in 1..Len(r.errors) : r.errors[i] = name

AllValidated == vresult # NoResult /\ tresult # NoResult /\ sresult # NoResult

\* C9 as stated: validateType reports an error exactly when the full validator
\* reports a type error for a message of that type, and validateSubject a
\* length error exactly when the full validator reports it for that subject
C9_FieldValidatorsAgree ==
    (AllValidated /\ parseCommitMessage(message) # Null)
        => /\ parseCommitMessage(message).type = ftype
                => (tresult.errors # <<>>
                      <=> Has(vresult, "InvalidType") \/ Has(vresult, "TypeNotLowercase"))
           /\ parseCommitMessage(message).subject = fsubject
                => /\ Has(sresult, "SubjectTooLong") <=> Has(vresult, "SubjectTooLong")
                   /\ Has(sresult, "SubjectTooShort") <=> Has(vresult, "SubjectTooShort")

\* the message is "<t>: <subject>", its subject one non-empty line without
\* surrounding white space and of a length within the bounds, under a config
\* that requires neither scope nor body
PlainMessage ==
    /\ vresult # NoResult
    /\ ~config.scopeRequired /\ ~config.bodyRequired
    /\ message = ftype \o <<":", " ">> \o fsubject
    /\ fsubject # <<>> /\ Trim(fsubject) = fsubject
    /\ \A i \in 1..Len(fsubject) : fsubject[i] \notin LineTerminators
    /\ Len(fsubject) >= config.subjectMinLength
    /\ Len(fsubject) <= config.subjectMaxLength

\* C10 as stated: such a message is valid when its type is a member of
\* config.types and invalid when it is not
C10_ValidIffMember ==
    PlainMessage => (vresult.isValid <=> Includes(config.types, ftype))

\* C10 amended: such a message is valid exactly when its type is a member of
\* config.types and consists of lowercase letters only
C10_ValidIffLowercaseMember ==
    PlainMessage
        => (vresult.isValid
              <=> /\ Includes(config.types, ftype)
                  /\ ftype # <<>>
                  /\ \A i \in 1..Len(ftype) : ftype[i] \in LowerChars)

\* a custom lowercase type was accepted under a config that does not hold the
\* built-in types
C10_Witness ==
    /\ PlainMessage /\ vresult.isValid
    /\ config.types # DEFAULT_TYPES

-----------------------------------------------------------------------------
(* Claims about the commit commands, checked under SpecCommit              *)

Answered(prompt, answer) ==
    \E i \in 1..Len(answers) : answers[i] = <<prompt, answer>>

Declined ==
    \E i \in 1..Len(answers) : answers[i][2] \in {"cancel", "dismissed", "configure"}

\* C2: in a run of executeCommitCommand or executeQuickCommitCommand,
\* gitService.commit is called at most once, and only with the raw text that
\* validator.validate judged valid in this run: never after validation errors,
\* never after the user cancelled, and in executeCommitCommand only after the
\* user continued past the warnings, if any, and confirmed the commit.
C2_CommitOnlyValidated ==
    /\ Len(commits) <= 1
    /\ commits # <<>> =>
          /\ validation # NoResult
          /\ validation.input = commits[1]
          /\ validation.result.isValid
          /\ validation.result.errors = <<>>
          /\ ~Declined
          /\ command = "commit" =>
                /\ Answered("showCommitConfirmation", "confirm")
                /\ validation.result.warnings # <<>> =>
                      Answered("showWarningMessage", "continue")

\* executeCommitCommand committed a message that had a warning, and
\* executeQuickCommitCommand is covered by the same formula
C2_Witness ==
    /\ command = "commit" /\ pc = "done"
    /\ Len(commits) = 1
    /\ validation # NoResult /\ validation.result.warnings # <<>>

\* C20: the validation of executeCommitCommand and executeQuickCommitCommand
\* enforces the rules of the project config file in preference to the editor
\* settings and the defaults: its result is that of the rules under the
\* config layered from defaults, editor settings and project file
C20_ProjectConfigEnforced ==
    validation # NoResult =>
        validation.result =
            validate(validation.input, BuildConfig(editorSettings, projectFile))

-----------------------------------------------------------------------------
(* Claims about the AI helpers, checked under SpecAI                       *)

\* String.prototype.includes
Contains(s, w) ==
    \E i \in 1..(Len(s) - Len(w) + 1) : SubSeq(s, i, i + Len(w) - 1) = w

\* t is the first k lines of the diff, whole, followed on a new line by a
\* marker that holds the word "truncated"
WholeLinesThenMarker(t, diff) ==
    LET lines == Split(diff, "\n")
    IN  \E k \in 0..Len(lines) :
          LET prefix == Join(SubSeq(lines, 1, k), <<"\n">>)
                        \o (IF k = 0 THEN <<>> ELSE <<"\n">>)
          IN  /\ StartsWith(t, prefix)
              /\ Contains(SubSeq(t, Len(prefix) + 1, Len(t)),
                          <<"t", "r", "u", "n", "c", "a", "t", "e", "d">>)

\* C13: truncateDiff returns a text that is not longer than maxLength returned
\* unchanged; of a longer one it returns a text not longer than maxLength,
\* made of whole leading lines and the truncation marker
C13_TruncateWithinMax ==
    truncated # Undefined
        => IF Len(diffContent) <= maxLength
           THEN truncated = diffContent
           ELSE /\ Len(truncated) <= maxLength
                /\ WholeLinesThenMarker(truncated, diffContent)

\* the JSON text of a response: the inside of the first fenced block, with or
\* without the language tag, or the whole response when it has no such block
Payload(c) ==
    LET fences == {i \in 1..Len(c) : c[i].tok = "fence"}
    IN  IF \E i, j \in fences : i < j
        THEN LET i == CHOOSE a \in fences : \A b \in fences : a <= b
                 j == CHOOSE a \in fences : a > i /\ \A b \in fences : b > i => a <= b
                 from == IF i + 1 < j /\ c[i + 1].tok = "json" THEN i + 2 ELSE i + 1
             IN  SubSeq(c, from, j - 1)
        ELSE c

\* the tokens of a text that are not white space
Solid(c) == {i \in 1..Len(c) : c[i].tok # "space"}

\* the text is one JSON document, white space around it allowed
IsJson(c) == Cardinality(Solid(c)) = 1 /\ \A i \in Solid(c) : c[i].tok = "doc"

JsonOf(c) == c[CHOOSE i \in Solid(c) : TRUE].value

\* the JSON value has no property of this name
Lacks(value, name) ==
    ~("props" \in DOMAIN value) \/ value.props[name] = Missing

\* the property is not there, or is null, an empty string, zero or false
Unusable(value, name) ==
    \/ Lacks(value, name)
    \/ value.props[name] \in {JNull, JStr(<<>>), JNum(0), JBool(FALSE)}

Thrown(r) == "thrown" \in DOMAIN r

ParseErrorPrefix == <<"F", "a", "i", "l", "e", "d", " ", "t", "o", " ", "p", "a", "r", "s", "e", " ", "A", "I", " ", "r", "e", "s", "p", "o", "n", "s", "e">>
MissingFieldsText == <<"M", "i", "s", "s", "i", "n", "g", " ", "r", "e", "q", "u", "i", "r", "e", "d", " ", "f", "i", "e", "l", "d", "s">>

Answered_AI == aiResult # NoResult /\ content # NoContent

PresentValue(value, name) ==
    ~Lacks(value, name) /\ value.props[name] \notin {JNull, JStr(<<>>)}

OptionalNames == {"scope", "body", "reasoning"}

\* C15 as stated: an accepted response gives the lower-cased text of its type,
\* the text of its subject and of every optional field that is present, and
\* the absence value for every optional field that is not
C15_NormalisesFields ==
    (Answered_AI /\ ~Thrown(aiResult))
        => LET v == JsonOf(Payload(content))
           IN  /\ aiResult.type = ToLowerCase(JsString(v.props["type"]))
               /\ aiResult.subject = JsString(v.props["subject"])
               /\ \A name \in OptionalNames :
                     aiResult[name] = IF PresentValue(v, name)
                                      THEN JsString(v.props[name]) ELSE Undefined

\* C15 amended: an optional field counts as present when its value is usable:
\* not null, not an empty string, not zero and not false
C15_NormalisesUsableFields ==
    (Answered_AI /\ ~Thrown(aiResult))
        => LET v == JsonOf(Payload(content))
           IN  /\ aiResult.type = ToLowerCase(JsString(v.props["type"]))
               /\ aiResult.subject = JsString(v.props["subject"])
               /\ \A name \in OptionalNames :
                     aiResult[name] = IF ~Unusable(v, name)
                                      THEN JsString(v.props[name]) ELSE Undefined

\* a response with the type "Feat", the scope 0 and the reasoning true was
\* accepted
C15_Witness ==
    /\ Answered_AI /\ ~Thrown(aiResult)
    /\ JsonOf(Payload(content)).props["type"] = JStr(<<"F", "e", "a", "t">>)
    /\ JsonOf(Payload(content)).props["scope"] = JNum(0)
    /\ JsonOf(Payload(content)).props["reasoning"] = JBool(TRUE)

-----------------------------------------------------------------------------
(* Claims about the diff analyzer, checked under SpecAnalyze               *)

Analyzed == analysis # NoResult

\* the path matches the heuristic of the kind
IsFileOfKind(path, kind) ==
    IF kind = "test" THEN isTestFile(path)
    ELSE IF kind = "doc" THEN isDocFile(path)
    ELSE IF kind = "config" THEN isConfigFile(path)
    ELSE isStyleFile(path)

\* there is a file and every file path matches the heuristic of the kind
AllFilesAre(files, kind) ==
    /\ Len(files) > 0
    /\ \A i \in 1..Len(files) : IsFileOfKind(files[i].path, kind)

\* the number of files of one change kind
Changes(files, status) ==
    Cardinality({i \in 1..Len(files) : files[i].status = status})

ClaimedType(files) ==
    IF AllFilesAre(files, "test") THEN <<"t", "e", "s", "t">>
    ELSE IF AllFilesAre(files, "doc") THEN <<"d", "o", "c", "s">>
    ELSE IF AllFilesAre(files, "config") THEN <<"c", "h", "o", "r", "e">>
    ELSE IF AllFilesAre(files, "style") THEN <<"s", "t", "y", "l", "e">>
    ELSE IF /\ Changes(files, "D") > 0
            /\ Changes(files, "A") = 0
            /\ Changes(files, "M") = 0 THEN <<"c", "h", "o", "r", "e">>
    ELSE IF Changes(files, "A") > 0 THEN <<"f", "e", "a", "t">>
    ELSE IF Changes(files, "M") > 0 THEN <<"f", "i", "x">>
    ELSE <<"c", "h", "o", "r", "e">>

\* C16: the suggested type is given by the first rule that matches, in the
\* order: all files tests -> test, all docs -> docs, all config -> chore,
\* all style -> style, only deletions -> chore, any addition -> feat, any
\* modification -> fix, otherwise chore ("all files" of a list that has a
\* file); files that all match the test heuristic give test
C16_TypeByFirstRule ==
    Analyzed =>
        /\ analysis.suggestedType = ClaimedType(diffInfo.stagedFiles)
        /\ AllFilesAre(diffInfo.stagedFiles, "test")
              => analysis.suggestedType = <<"t", "e", "s", "t">>

\* two files, both tests, one of them deleted and one added: test, not feat
C16_Witness ==
    /\ Analyzed
    /\ Len(diffInfo.stagedFiles) = 2
    /\ AllFilesAre(diffInfo.stagedFiles, "test")
    /\ Changes(diffInfo.stagedFiles, "A") = 1
    /\ Changes(diffInfo.stagedFiles, "D") = 1
    /\ analysis.suggestedType = <<"t", "e", "s", "t">>

\* the directory segments of a path
DirectorySegments(path) ==
    LET parts == Split(path, "/") IN SubSeq(parts, 1, Len(parts) - 1)

\* the winner of a path, as a set: the module of the first segment that is
\* an alias, else the first segment that is not src or lib, else none
Winner(path) ==
    LET segs == DirectorySegments(path)
        aliases == {i \in 1..Len(segs) :
                       ToLowerCase(segs[i]) \in DOMAIN DIR_TO_MODULE}
        others == {i \in 1..Len(segs) :
                      ToLowerCase(segs[i]) \notin {<<"s", "r", "c">>, <<"l", "i", "b">>}}
        First(set) == CHOOSE i \in set : \A j \in set : i <= j
    IN  IF aliases # {} THEN {DIR_TO_MODULE[ToLowerCase(segs[First(aliases)])]}
        ELSE IF others # {} THEN {segs[First(others)]}
        ELSE {}

ClaimedScope(files) ==
    LET winners == UNION {Winner(files[i].path) : i \in 1..Len(files)}
    IN  IF Cardinality(winners) = 1 THEN CHOOSE w \in winners : TRUE
        ELSE Undefined

\* C17: the suggested scope is the one winner of the files, a file's winner
\* being its first directory segment that is a module alias or, when it has
\* none, its first segment that is not src or lib; the scope is absent when
\* the winners are not exactly one value
C17_ScopeByAliasFirst ==
    Analyzed => analysis.suggestedScope = ClaimedScope(diffInfo.stagedFiles)

\* the verb of a change kind
VerbOf(status) ==
    IF status = "A" THEN <<"a", "d", "d">>
    ELSE IF status = "M" THEN <<"u", "p", "d", "a", "t", "e">>
    ELSE IF status = "D" THEN <<"r", "e", "m", "o", "v", "e">>
    ELSE <<"r", "e", "n", "a", "m", "e">>

\* the last segment of a path
FileNameOf(path) == LET parts == Split(path, "/") IN parts[Len(parts)]

\* C18: one changed file gives "<verb> <filename>"; several files of one
\* change kind give "<verb> N files", for the kinds added, modified, deleted
\* and renamed
C18_SubjectByChangeKind ==
    LET files == diffInfo.stagedFiles
        kind == files[1].status
    IN  /\ Analyzed
        /\ Len(files) >= 1
        /\ kind \in {"A", "M", "D", "R"}
        /\ \A i \in 1..Len(files) : files[i].status = kind
        => analysis.suggestedSubject =
              IF Len(files) = 1
              THEN VerbOf(kind) \o <<" ">> \o FileNameOf(files[1].path)
              ELSE VerbOf(kind) \o <<" ">> \o NumText(Len(files)) \o <<" ", "f", "i", "l", "e", "s">>

\* the types the specification lists for analyzeDiff
SuggestedTypes ==
    { <<"t", "e", "s", "t">>, <<"d", "o", "c", "s">>, <<"c", "h", "o", "r", "e">>,
      <<"s", "t", "y", "l", "e">>, <<"f", "e", "a", "t">>, <<"f", "i", "x">> }

\* C30: for every diff, the empty one included, the suggested type is one of
\* test, docs, chore, style, feat and fix, each a member of the default types,
\* and it passes the type rules of the default config
C30_SuggestedTypeInVocabulary ==
    analysis # NoResult
        => /\ analysis.suggestedType \in SuggestedTypes
           /\ Includes(DEFAULT_TYPES, analysis.suggestedType)
           /\ TYPE_PATTERN(analysis.suggestedType)
           /\ validateType(analysis.suggestedType, DEFAULT_CONFIG).isValid

\* a diff that holds only copied and unknown files was analyzed
C30_Witness ==
    /\ analysis # NoResult
    /\ Len(diffInfo.stagedFiles) = 2
    /\ \A i \in 1..2 : diffInfo.stagedFiles[i].status \in OtherStatuses
    /\ diffInfo.stagedFiles[1].status # diffInfo.stagedFiles[2].status

-----------------------------------------------------------------------------
(* Claims about the config manager, checked under SpecConfig               *)

Resolved == resolved # NoResult

\* the property of the project file's document, when it is an object
ProjectProp(name) ==
    IF projectFile \notin {FileAbsent, FileUnparseable}
    THEN Prop(projectFile.value, name) ELSE Missing

\* a value of the type IPluginConfig declares for the field
WellTyped(field, v) ==
    IF field = "types"
    THEN \/ IsKind(v, "array")
         \/ /\ IsKind(v, "items")
            /\ \A i \in 1..Len(v.items) : IsKind(v.items[i], "str")
    ELSE IF field \in {"subjectMaxLength", "subjectMinLength"}
    THEN IsKind(v, "num")
    ELSE IsKind(v, "bool")

\* the non-empty strings of a list, in order
RECURSIVE NonEmptyStrings(_)
NonEmptyStrings(items) ==
    IF items = <<>> THEN <<>>
    ELSE (IF IsKind(Head(items), "str") /\ Head(items).str # <<>>
          THEN <<Head(items).str>> ELSE <<>>)
         \o NonEmptyStrings(Tail(items))

\* a value the project layer accepts for the field
Usable(field, v) ==
    IF field = "types"
    THEN IsKind(v, "items") /\ NonEmptyStrings(v.items) # <<>>
    ELSE IF field = "subjectMaxLength" THEN IsKind(v, "num") /\ v.num > 0
    ELSE IF field = "subjectMinLength" THEN IsKind(v, "num") /\ v.num >= 0
    ELSE IsKind(v, "bool")

\* the value the project layer takes from a usable value
UsableValue(field, v) ==
    IF field = "types" THEN NonEmptyStrings(v.items) ELSE PlainValue(v)

\* type descriptions layered key by key: project, then editor, then default
LayeredDescriptions ==
    LET project == Entries(ProjectProp("typeDescriptions"))
        projectKeys == {k \in DOMAIN project : IsKind(project[k], "str")}
        editor == Entries(editorSettings.typeDescriptions)
    IN  [k \in projectKeys \cup DOMAIN editor
               \cup DOMAIN DEFAULT_CONFIG.typeDescriptions |->
            IF k \in projectKeys THEN project[k].str
            ELSE IF k \in DOMAIN editor THEN editor[k].str
            ELSE DEFAULT_CONFIG.typeDescriptions[k]]

\* the config layered field by field, the project layer supplying the
\* well-typed values (literal) or the usable values
LayeredConfig(literal) ==
    LET Supplies(f, v) == IF literal THEN WellTyped(f, v) ELSE Usable(f, v)
        Value(f, v) == IF literal THEN PlainValue(v) ELSE UsableValue(f, v)
        Field(f) ==
            IF Supplies(f, ProjectProp(f)) THEN Value(f, ProjectProp(f))
            ELSE IF ~Nullish(editorSettings[f]) THEN PlainValue(editorSettings[f])
            ELSE DEFAULT_CONFIG[f]
    IN  [types |-> Field("types"),
         typeDescriptions |-> LayeredDescriptions,
         subjectMaxLength |-> Field("subjectMaxLength"),
         subjectMinLength |-> Field("subjectMinLength"),
         scopeRequired |-> Field("scopeRequired"),
         bodyRequired |-> Field("bodyRequired")]

\* C19: getConfig returns, field by field, the project file's value when the
\* file supplies a well-typed value, else the editor setting when defined,
\* else the default, with typeDescriptions layered key by key; a missing or
\* unparseable file and a wrongly typed field leave the lower layers in effect
C19_LayeredConfig ==
    Resolved => resolved = LayeredConfig(TRUE)

\* C19 (amended): as C19, the project file supplying a field when its value
\* is usable: for types a list with at least one non-empty string, of which
\* the non-empty strings are taken; for subjectMaxLength a number above 0;
\* for subjectMinLength a number not below 0; for the flags a boolean
C19_LayeredUsableConfig ==
    Resolved => resolved = LayeredConfig(FALSE)

\* the project file sets the flag and a wrongly typed maximum, the editor
\* sets both: the flag comes from the file, the maximum from the editor, the
\* types from the defaults
C19_Witness ==
    /\ Resolved
    /\ IsKind(ProjectProp("scopeRequired"), "bool")
    /\ IsKind(ProjectProp("subjectMaxLength"), "str")
    /\ IsKind(editorSettings.scopeRequired, "bool")
    /\ IsKind(editorSettings.subjectMaxLength, "num")
    /\ resolved.scopeRequired = ProjectProp("scopeRequired").bool
    /\ resolved.scopeRequired # editorSettings.scopeRequired.bool
    /\ resolved.subjectMaxLength = editorSettings.subjectMaxLength.num
    /\ resolved.types = DEFAULT_CONFIG.types

-----------------------------------------------------------------------------
(* Claims about the config loaders and the reloading, checked under        *)
(* SpecReload                                                              *)

\* a PluginConfig as the data model has it
WellFormedConfig(cfg) ==
    /\ Len(cfg.types) > 0
    /\ cfg.subjectMinLength <= cfg.subjectMaxLength

\* C21: every config that ConfigManager.getConfig returns and every config
\* that ValidatorService.loadConfig builds has a non-empty types list and
\* subjectMinLength <= subjectMaxLength
C21_LoadedConfigWellFormed ==
    /\ resolved # NoResult => WellFormedConfig(resolved)
    /\ svcConfig # Null => WellFormedConfig(svcConfig)

RuleFields ==
    {"types", "subjectMaxLength", "subjectMinLength", "scopeRequired",
     "bodyRequired"}

\* the value the user has set, the default for a setting that is not set
SettingOrDefault(settings, field) ==
    IF settings[field] # Missing THEN PlainValue(settings[field])
    ELSE DEFAULT_CONFIG[field]

\* C22: the validator service validates with the value the user has set for
\* types, subjectMaxLength, subjectMinLength, scopeRequired and bodyRequired,
\* and with the default only for a setting the user has not set
C22_SettingsTakeEffect ==
    svcConfig # Null =>
        \A field \in RuleFields :
            svcConfig[field] = SettingOrDefault(editorSettings, field)

\* C23: after a change of the settings, of the project config file or of the
\* workspace folders, a config read returns the config built from the
\* sources as they are at the read, never a value cached before the change:
\* getConfig returns the layered config of the current settings and project
\* file, and the validator service validates with the config loaded from the
\* current settings
C23_ReadsFollowChanges ==
    [][ /\ GetConfig => resolved' = BuildConfig(editorSettings, projectFile)
        /\ ServiceValidate => svcConfig' = loadConfig(editorSettings) ]_vars


-----------------------------------------------------------------------------
(* Claims about the manual wizard, checked under SpecWizard                *)

\* the prompts of the five steps
WizardPrompts == {"type", "scope", "subject", "body", "footer"}

\* the step in which the user dismisses a prompt of the wizard
PromptDismissed ==
    \E prompt \in WizardPrompts : answers' = Append(answers, <<prompt, "dismissed">>)

\* C24: dismissing the prompt of any of the five steps of showCommitInputFlow
\* ends the flow with no message, and no later prompt is shown
C24_CancelAtEveryStep ==
    [][PromptDismissed
          => wizard'.step = "returned" /\ wizard'.returns = "undefined"]_vars

\* C28: every message the wizard returns is judged valid by
\* ValidatorService.validate on its raw text, under the config of the flow
C28_WizardMessagesValid ==
    (wizard # NoFields /\ wizard.returns = "message")
        => validate(WizardMessage(wizard).raw, svcConfig).isValid


-----------------------------------------------------------------------------
(* Claims about the two implementations of the rules, checked under        *)
(* SpecAgree                                                               *)

\* C27: every method of ValidatorService holding config c (parseMessage,
\* validate, validateType, validateSubject, buildCommitMessage) returns what
\* the function of validator.core returns for the same arguments and c
C27_ImplementationsAgree ==
    results # NoResult => results.service = results.core

\* a message with a body and a footer was validated under a config that
\* requires a scope, and the service rejects it with several errors
C27_Witness ==
    /\ results # NoResult /\ call.method = "validate"
    /\ call.config.scopeRequired /\ call.config.bodyRequired
    /\ ~results.service.isValid /\ Len(results.service.errors) >= 3
    /\ LET p == parseCommitMessage(call.message)
       IN  p # Null /\ p.body # Undefined /\ p.footer # Undefined


-----------------------------------------------------------------------------
(* Claims about the AI service, checked under SpecRemote and               *)
(* SpecRemoteFair                                                          *)

\* C25: a call of generateCommitMessage that is in flight when the timeout
\* has passed is rejected with the timeout error, before the headers and
\* while the body is read, so every call eventually settles
C25_TimeoutSettles ==
    /\ [](request # NoFields /\ request.elapsed
            => request.stage = "settled" /\ request.outcome = "Timeout")
    /\ (InFlight ~> ~InFlight)

\* C29: showAIGenerateOption offers the AI option exactly when the settings,
\* as they are when it is called, have ai.enabled true and a non-empty apiKey
C29_OptionFollowsSettings ==
    [][ShowAIGenerateOption
          => (Includes(offered', "ai") <=> isEnabled(getAIConfig(aiSettings)))]_vars

====
